---- MODULE Spec2Model ----
(***************************************************************************)
(* Model of the tender synchronisation service: SyncJob (the running flag  *)
(* and the triggers), SyncService (runSync, processTenders and the         *)
(* reconciliation policy) and MatchingService (candidate subscribers,      *)
(* calculateMatchScore, createMatch), over a record store and a match      *)
(* store; and PLACSPApi (the extraction of the classification code and    *)
(* of the province of a feed entry, and the two filters of the feed).      *)
(*                                                                         *)
(* Conventions.                                                            *)
(*  - A JavaScript string the code inspects character by character (a      *)
(*    title, a province, a sector) is a tuple of characters; an accented   *)
(*    letter is written as its base letter followed by an apostrophe       *)
(*    ("o'" is o with acute accent).  Strings that are only compared for   *)
(*    identity (a status, a user id) are TLA+ strings.                     *)
(*  - A nullable value is a tuple: <<>> is null/undefined, <<v>> is v.     *)
(*  - Time is counted in ticks; TicksPerDay ticks make 24 hours.           *)
(***************************************************************************)
EXTENDS Integers, Sequences, FiniteSets, TLC

(***************************************************************************)
(* Bounds of the model.                                                    *)
(***************************************************************************)
TicksPerDay == 2
MaxEvents == 6
\* The largest number of entries of one feed: a third of the events.
MaxFeed == MaxEvents \div 3

None == <<>>
Some(v) == <<v>>
IsSome(o) == Len(o) = 1

(***************************************************************************)
(* JavaScript string primitives.                                           *)
(***************************************************************************)
lowerOf(c) ==
  CASE c = "A" -> "a" [] c = "B" -> "b" [] c = "C" -> "c" [] c = "D" -> "d"
    [] c = "E" -> "e" [] c = "F" -> "f" [] c = "G" -> "g" [] c = "H" -> "h"
    [] c = "I" -> "i" [] c = "J" -> "j" [] c = "K" -> "k" [] c = "L" -> "l"
    [] c = "M" -> "m" [] c = "N" -> "n" [] c = "O" -> "o" [] c = "P" -> "p"
    [] c = "Q" -> "q" [] c = "R" -> "r" [] c = "S" -> "s" [] c = "T" -> "t"
    [] c = "U" -> "u" [] c = "V" -> "v" [] c = "W" -> "w" [] c = "X" -> "x"
    [] c = "Y" -> "y" [] c = "Z" -> "z"
    [] c = "A'" -> "a'" [] c = "E'" -> "e'" [] c = "I'" -> "i'"
    [] c = "O'" -> "o'" [] c = "U'" -> "u'" [] c = "N~" -> "n~"
    [] OTHER -> c

toLowerCase(s) == [i \in 1..Len(s) |-> lowerOf(s[i])]

\* String.prototype.includes: sub occurs in s as a contiguous substring.
includes(s, sub) ==
  \E i \in 0..(Len(s) - Len(sub)) :
     \A j \in 1..Len(sub) : s[i + j] = sub[j]

\* Array.prototype.includes on a list of values.
listIncludes(list, v) == \E i \in 1..Len(list) : list[i] = v

\* The truthiness of a nullable number: null, undefined and 0 are falsy.
truthyNum(o) == IsSome(o) /\ o[1] # 0

(***************************************************************************)
(* MatchingService: the scoring function.                                  *)
(***************************************************************************)
\* Math.ceil(diffTime / one day), the deadline and today being tick counts.
getDaysUntilDeadline(deadline, now) ==
  0 - ((now - deadline) \div TicksPerDay)

sectorKeywords(sector) ==
  CASE sector = <<"E", "d", "i", "f", "i", "c", "a", "c", "i", "o'", "n", " ", "r", "e", "s", "i", "d", "e", "n", "c", "i", "a", "l">>
       -> << <<"e", "d", "i", "f", "i", "c", "a", "c", "i", "o'", "n">>,
             <<"e", "d", "i", "f", "i", "c", "i", "o">>,
             <<"v", "i", "v", "i", "e", "n", "d", "a">>,
             <<"r", "e", "s", "i", "d", "e", "n", "c", "i", "a", "l">>,
             <<"p", "a", "b", "e", "l", "l", "o'", "n">> >>
    [] sector = <<"O", "b", "r", "a", " ", "c", "i", "v", "i", "l">>
       -> << <<"o", "b", "r", "a", " ", "c", "i", "v", "i", "l">>,
             <<"i", "n", "f", "r", "a", "e", "s", "t", "r", "u", "c", "t", "u", "r", "a">>,
             <<"u", "r", "b", "a", "n", "i", "z", "a", "c", "i", "o'", "n">>,
             <<"p", "a", "v", "i", "m", "e", "n", "t", "a", "c", "i", "o'", "n">>,
             <<"c", "a", "r", "r", "e", "t", "e", "r", "a">>,
             <<"i", "n", "g", "e", "n", "i", "e", "r", "i'", "a", " ", "c", "i", "v", "i", "l">> >>
    [] sector = <<"R", "e", "h", "a", "b", "i", "l", "i", "t", "a", "c", "i", "o'", "n", " ", "y", " ", "r", "e", "f", "o", "r", "m", "a", "s">>
       -> << <<"r", "e", "h", "a", "b", "i", "l", "i", "t", "a", "c", "i", "o'", "n">>,
             <<"r", "e", "f", "o", "r", "m", "a">>,
             <<"r", "e", "s", "t", "a", "u", "r", "a", "c", "i", "o'", "n">>,
             <<"m", "e", "j", "o", "r", "a">> >>
    [] sector = <<"I", "n", "s", "t", "a", "l", "a", "c", "i", "o", "n", "e", "s">>
       -> << <<"i", "n", "s", "t", "a", "l", "a", "c", "i", "o'", "n">>,
             <<"i", "n", "s", "t", "a", "l", "a", "c", "i", "o", "n", "e", "s">>,
             <<"e", "l", "e'", "c", "t", "r", "i", "c", "a">>,
             <<"f", "o", "n", "t", "a", "n", "e", "r", "i'", "a">>,
             <<"c", "l", "i", "m", "a", "t", "i", "z", "a", "c", "i", "o'", "n">> >>
    [] OTHER -> << toLowerCase(sector) >>

\* Signal 1: the province of the record against the subscriber's provinces.
regionSignal(tender, user) ==
  IF user.preferred_province = tender.province THEN 40
  ELSE IF IsSome(user.locations) /\ IsSome(tender.province)
          /\ listIncludes(user.locations[1], tender.province[1])
       THEN 40
       ELSE 10

\* Signal 2: the budget of the record against the subscriber's range.
budgetSignal(tender, user) ==
  IF truthyNum(tender.budget)
  THEN IF truthyNum(user.budget_min) /\ truthyNum(user.budget_max)
       THEN IF tender.budget[1] >= user.budget_min[1] /\ tender.budget[1] <= user.budget_max[1]
            THEN 30
            ELSE IF 2 * tender.budget[1] >= user.budget_min[1]
                    /\ tender.budget[1] <= user.budget_max[1] * 2
                 THEN 20
                 ELSE 5
       ELSE 15
  ELSE 10

hasSectorMatch(tender, user) ==
  \E s \in 1..Len(user.sectors[1]) :
     LET keywords == sectorKeywords(user.sectors[1][s])
     IN  \E k \in 1..Len(keywords) :
            \/ includes(toLowerCase(tender.work_type), keywords[k])
            \/ includes(toLowerCase(tender.title), keywords[k])

\* Variant: no points when the subscriber declares no sector.
sectorSignalNoDefault(tender, user) ==
  IF IsSome(user.sectors) /\ Len(user.sectors[1]) > 0
  THEN IF hasSectorMatch(tender, user) THEN 20 ELSE 10
  ELSE 0

\* Signal 3: the subscriber's sectors against the work type and the title.
sectorSignal(tender, user) ==
  IF IsSome(user.sectors) /\ Len(user.sectors[1]) > 0
  THEN IF hasSectorMatch(tender, user) THEN 20 ELSE 10
  ELSE 15

\* Variant: a deadline seven days out counts as moderate.
recencySignalFromSeven(tender, now) ==
  (IF tender.status = "active" THEN 5 ELSE 0)
  + (IF IsSome(tender.deadline)
     THEN LET daysUntilDeadline == getDaysUntilDeadline(tender.deadline[1], now)
          IN  IF daysUntilDeadline > 15 THEN 5
              ELSE IF daysUntilDeadline >= 7 THEN 3 ELSE 0
     ELSE 0)

\* Signal 4: state of the record and time left until its deadline.
recencySignal(tender, now) ==
  (IF tender.status = "active" THEN 5 ELSE 0)
  + (IF IsSome(tender.deadline)
     THEN LET daysUntilDeadline == getDaysUntilDeadline(tender.deadline[1], now)
          IN  IF daysUntilDeadline > 15 THEN 5
              ELSE IF daysUntilDeadline > 7 THEN 3 ELSE 0
     ELSE 0)

Min(a, b) == IF a <= b THEN a ELSE b

\* Variant: the two province tests both add their points and the sum is
\* returned without the final Math.min.
calculateMatchScoreCumulative(tender, user, now) ==
  (IF user.preferred_province = tender.province THEN 40 ELSE 0)
  + (IF IsSome(user.locations) /\ IsSome(tender.province)
        /\ listIncludes(user.locations[1], tender.province[1])
     THEN 40 ELSE 0)
  + budgetSignal(tender, user) + sectorSignal(tender, user)
  + recencySignal(tender, now)

calculateMatchScore(tender, user, now) ==
  Min(regionSignal(tender, user) + budgetSignal(tender, user)
        + sectorSignal(tender, user) + recencySignal(tender, now),
      100)

(***************************************************************************)
(* PLACSPApi: the extraction of the fields of a feed entry and the filters *)
(* applied to the feed.                                                    *)
(***************************************************************************)
maxEntriesToProcess == 500

startsWith(s, p) == Len(s) >= Len(p) /\ \A j \in 1..Len(p) : s[j] = p[j]

\* NFD decomposition followed by the removal of the combining marks.
stripMarks(c) ==
  CASE c = "a'" -> "a" [] c = "e'" -> "e" [] c = "i'" -> "i"
    [] c = "o'" -> "o" [] c = "u'" -> "u" [] c = "n~" -> "n"
    [] OTHER -> c

RECURSIVE trimLeft(_)
trimLeft(s) == IF Len(s) > 0 /\ Head(s) = " " THEN trimLeft(Tail(s)) ELSE s

RECURSIVE trimRight(_)
trimRight(s) ==
  IF Len(s) > 0 /\ s[Len(s)] = " " THEN trimRight(SubSeq(s, 1, Len(s) - 1)) ELSE s

normalizeProvince(province) ==
  IF ~IsSome(province) \/ Len(province[1]) = 0 THEN <<>>
  ELSE trimRight(trimLeft(
         [i \in 1..Len(province[1]) |-> stripMarks(lowerOf(province[1][i]))]))

\* A text node of the parsed feed (xml2js, mergeAttrs): a string, or an
\* object that holds the text under "_" when the element has attributes.
TextNode(chars) == [ isObject |-> FALSE, text |-> Some(chars) ]
AttrNode(text) == [ isObject |-> TRUE, text |-> text ]

\* node?._ || node || null
textOrNode(node) ==
  IF ~IsSome(node) THEN None
  ELSE IF node[1].isObject
       THEN IF IsSome(node[1].text) /\ Len(node[1].text[1]) > 0
            THEN Some(TextNode(node[1].text[1]))
            ELSE node
       ELSE IF Len(node[1].text[1]) > 0 THEN node ELSE None

\* value.toString()
jsToString(value) ==
  IF value.isObject
  THEN <<"[", "o", "b", "j", "e", "c", "t", " ", "O", "b", "j", "e", "c", "t", "]">>
  ELSE value.text[1]

\* The classification code of an entry: null when a level of the document
\* is missing or the first element of an empty list is read (TypeError,
\* caught).
extractCPV(entry) ==
  IF ~IsSome(entry.folder) THEN None
  ELSE IF ~IsSome(entry.folder[1].project) THEN None
  ELSE LET requiredCommodity == entry.folder[1].project[1].commodity
       IN  IF ~IsSome(requiredCommodity) THEN None
           ELSE IF Len(requiredCommodity[1].items) = 0 THEN None
           ELSE textOrNode(requiredCommodity[1].items[1])

\* Variant: an entry without classification code is kept.
keepsConstructionOrUncoded(entry) ==
  ~IsSome(extractCPV(entry))
  \/ startsWith(jsToString(extractCPV(entry)[1]), <<"4", "5">>)

\* The predicate of filterByConstruction's filter.
keepsConstruction(entry) ==
  /\ IsSome(extractCPV(entry))
  /\ startsWith(jsToString(extractCPV(entry)[1]), <<"4", "5">>)

filterByConstruction(entries) ==
  SelectSeq(entries, LAMBDA entry : keepsConstruction(entry))

provincias ==
  << <<"a'", "l", "a", "v", "a">>,
     <<"a", "l", "b", "a", "c", "e", "t", "e">>,
     <<"a", "l", "i", "c", "a", "n", "t", "e">>,
     <<"a", "l", "m", "e", "r", "i'", "a">>,
     <<"a", "s", "t", "u", "r", "i", "a", "s">>,
     <<"a'", "v", "i", "l", "a">>,
     <<"b", "a", "d", "a", "j", "o", "z">>,
     <<"b", "a", "r", "c", "e", "l", "o", "n", "a">>,
     <<"b", "u", "r", "g", "o", "s">>,
     <<"c", "a'", "c", "e", "r", "e", "s">>,
     <<"c", "a'", "d", "i", "z">>,
     <<"c", "a", "n", "t", "a", "b", "r", "i", "a">>,
     <<"c", "a", "s", "t", "e", "l", "l", "o'", "n">>,
     <<"c", "i", "u", "d", "a", "d", " ", "r", "e", "a", "l">>,
     <<"c", "o'", "r", "d", "o", "b", "a">>,
     <<"c", "u", "e", "n", "c", "a">>,
     <<"g", "e", "r", "o", "n", "a">>,
     <<"g", "i", "r", "o", "n", "a">>,
     <<"g", "r", "a", "n", "a", "d", "a">>,
     <<"g", "u", "a", "d", "a", "l", "a", "j", "a", "r", "a">>,
     <<"g", "u", "i", "p", "u'", "z", "c", "o", "a">>,
     <<"g", "i", "p", "u", "z", "k", "o", "a">>,
     <<"h", "u", "e", "l", "v", "a">>,
     <<"h", "u", "e", "s", "c", "a">>,
     <<"b", "a", "l", "e", "a", "r", "e", "s">>,
     <<"j", "a", "e'", "n">>,
     <<"c", "o", "r", "u", "n~", "a">>,
     <<"r", "i", "o", "j", "a">>,
     <<"p", "a", "l", "m", "a", "s">>,
     <<"l", "e", "o'", "n">>,
     <<"l", "e'", "r", "i", "d", "a">>,
     <<"l", "l", "e", "i", "d", "a">>,
     <<"l", "u", "g", "o">>,
     <<"m", "a", "d", "r", "i", "d">>,
     <<"m", "a'", "l", "a", "g", "a">>,
     <<"m", "a", "l", "a", "g", "a">>,
     <<"m", "u", "r", "c", "i", "a">>,
     <<"n", "a", "v", "a", "r", "r", "a">>,
     <<"o", "r", "e", "n", "s", "e">>,
     <<"o", "u", "r", "e", "n", "s", "e">>,
     <<"p", "a", "l", "e", "n", "c", "i", "a">>,
     <<"p", "o", "n", "t", "e", "v", "e", "d", "r", "a">>,
     <<"s", "a", "l", "a", "m", "a", "n", "c", "a">>,
     <<"t", "e", "n", "e", "r", "i", "f", "e">>,
     <<"s", "e", "g", "o", "v", "i", "a">>,
     <<"s", "e", "v", "i", "l", "l", "a">>,
     <<"s", "o", "r", "i", "a">>,
     <<"t", "a", "r", "r", "a", "g", "o", "n", "a">>,
     <<"t", "e", "r", "u", "e", "l">>,
     <<"t", "o", "l", "e", "d", "o">>,
     <<"v", "a", "l", "e", "n", "c", "i", "a">>,
     <<"v", "a", "l", "l", "a", "d", "o", "l", "i", "d">>,
     <<"v", "i", "z", "c", "a", "y", "a">>,
     <<"b", "i", "z", "k", "a", "i", "a">>,
     <<"z", "a", "m", "o", "r", "a">>,
     <<"z", "a", "r", "a", "g", "o", "z", "a">> >>

upperOf(c) ==
  CASE c = "a" -> "A" [] c = "b" -> "B" [] c = "c" -> "C" [] c = "d" -> "D"
    [] c = "e" -> "E" [] c = "f" -> "F" [] c = "g" -> "G" [] c = "h" -> "H"
    [] c = "i" -> "I" [] c = "j" -> "J" [] c = "k" -> "K" [] c = "l" -> "L"
    [] c = "m" -> "M" [] c = "n" -> "N" [] c = "o" -> "O" [] c = "p" -> "P"
    [] c = "q" -> "Q" [] c = "r" -> "R" [] c = "s" -> "S" [] c = "t" -> "T"
    [] c = "u" -> "U" [] c = "v" -> "V" [] c = "w" -> "W" [] c = "x" -> "X"
    [] c = "y" -> "Y" [] c = "z" -> "Z"
    [] c = "a'" -> "A'" [] c = "e'" -> "E'" [] c = "i'" -> "I'"
    [] c = "o'" -> "O'" [] c = "u'" -> "U'" [] c = "n~" -> "N~"
    [] OTHER -> c

\* provincia.charAt(0).toUpperCase() + provincia.slice(1)
capitalize(s) == [i \in 1..Len(s) |-> IF i = 1 THEN upperOf(s[i]) ELSE s[i]]

\* The first name of the list that the text includes, capitalized.
RECURSIVE firstProvinciaIn(_, _)
firstProvinciaIn(text, names) ==
  IF Len(names) = 0 THEN None
  ELSE IF includes(text, Head(names)) THEN Some(capitalize(Head(names)))
  ELSE firstProvinciaIn(text, Tail(names))

\* name?._ || name || 'No especificado'
extractContractingBody(contractFolder) ==
  IF IsSome(contractFolder) /\ IsSome(textOrNode(contractFolder[1].body))
  THEN jsToString(textOrNode(contractFolder[1].body)[1])
  ELSE <<"N", "o", " ", "e", "s", "p", "e", "c", "i", "f", "i", "c", "a", "d", "o">>

\* The truth value JavaScript gives a node: only a missing element and an
\* empty text are false.
truthyNode(node) ==
  IsSome(node) /\ (node[1].isObject \/ Len(node[1].text[1]) > 0)

\* address?.['cbc:CountrySubentityCode'] || address?.['cbc:CountrySubentity']
codeOrName(address) ==
  IF truthyNode(address.code) THEN address.code ELSE address.name

\* The structured address of the entry, if it has one.
addressProvince(entry) ==
  IF IsSome(entry.folder) /\ IsSome(entry.folder[1].project)
     /\ IsSome(entry.folder[1].project[1].location)
  THEN textOrNode(codeOrName(entry.folder[1].project[1].location[1]))
  ELSE None

\* Variant: the title and the summary are searched before the address.
extractProvinceTextFirst(entry) ==
  LET text == toLowerCase(entry.title \o <<" ">> \o entry.summary)
      bodyText == toLowerCase(extractContractingBody(entry.folder))
  IN  IF IsSome(firstProvinciaIn(text, provincias))
      THEN firstProvinciaIn(text, provincias)
      ELSE IF IsSome(addressProvince(entry))
      THEN Some(jsToString(addressProvince(entry)[1]))
      ELSE firstProvinciaIn(bodyText, provincias)

\* The address is a text in every entry considered.
extractProvince(entry) ==
  IF IsSome(addressProvince(entry))
  THEN Some(jsToString(addressProvince(entry)[1]))
  ELSE LET text == toLowerCase(entry.title \o <<" ">> \o entry.summary)
           bodyText == toLowerCase(extractContractingBody(entry.folder))
       IN  IF IsSome(firstProvinciaIn(text, provincias))
           THEN firstProvinciaIn(text, provincias)
           ELSE firstProvinciaIn(bodyText, provincias)

\* Variant: the province is compared as it is written.
keepsProvinceRaw(entry, provinces) ==
  /\ IsSome(extractProvince(entry))
  /\ Len(extractProvince(entry)[1]) > 0
  /\ listIncludes(provinces, extractProvince(entry)[1])

\* The predicate of filterByProvinces' filter.
keepsProvince(entry, provinces) ==
  /\ IsSome(extractProvince(entry))
  /\ Len(extractProvince(entry)[1]) > 0
  /\ listIncludes([k \in 1..Len(provinces) |-> normalizeProvince(Some(provinces[k]))],
                  normalizeProvince(extractProvince(entry)))

filterByProvinces(entries, provinces) ==
  SelectSeq(entries, LAMBDA entry : keepsProvince(entry, provinces))

\* The value JavaScript calls NaN: neither null nor a number.
NaN == << "Not", "a", "Number" >>

isDigit(c) == c \in { "0", "1", "2", "3", "4", "5", "6", "7", "8", "9" }

digitOf(c) ==
  CASE c = "0" -> 0 [] c = "1" -> 1 [] c = "2" -> 2 [] c = "3" -> 3 [] c = "4" -> 4
    [] c = "5" -> 5 [] c = "6" -> 6 [] c = "7" -> 7 [] c = "8" -> 8 [] c = "9" -> 9

\* The number written by the digits at the head of s, after acc.
RECURSIVE leadingNumber(_, _)
leadingNumber(s, acc) ==
  IF Len(s) = 0 \/ ~isDigit(Head(s)) THEN acc
  ELSE leadingNumber(Tail(s), 10 * acc + digitOf(Head(s)))

\* parseFloat: leading blanks are skipped and the longest numeric prefix is
\* read; NaN when there is none.  Whole numbers without sign only: the
\* texts considered hold no other number.
parseFloat(s) ==
  IF Len(trimLeft(s)) = 0 \/ ~isDigit(Head(trimLeft(s))) THEN NaN
  ELSE Some(leadingNumber(trimLeft(s), 0))

\* Variant: a text that is not a number gives null.
extractBudgetOrNull(procurement) ==
  IF ~IsSome(procurement) THEN None
  ELSE IF ~IsSome(textOrNode(procurement[1].budget)) THEN None
  ELSE IF parseFloat(jsToString(textOrNode(procurement[1].budget)[1])) = NaN THEN None
  ELSE parseFloat(jsToString(textOrNode(procurement[1].budget)[1]))

\* amount ? parseFloat(amount) : null.  procurement is {} when the entry
\* has no project.
extractBudget(procurement) ==
  IF ~IsSome(procurement) THEN None
  ELSE IF ~IsSome(textOrNode(procurement[1].budget)) THEN None
  ELSE parseFloat(jsToString(textOrNode(procurement[1].budget)[1]))

\* The tender read from an entry.  The fields that nothing reads again
\* (summary, link, dates, description, contracting body) are left out.
transformEntry(entry) ==
  [ id |-> entry.id,
    contract_folder_id |-> IF IsSome(entry.folder)
                           THEN entry.folder[1].contract_folder_id ELSE None,
    title |-> IF Len(entry.title) > 0 THEN entry.title
              ELSE <<"S", "i", "n", " ", "t", "i'", "t", "u", "l", "o">>,
    province |-> extractProvince(entry),
    cpv_code |-> extractCPV(entry),
    budget |-> extractBudget(IF IsSome(entry.folder)
                             THEN entry.folder[1].project ELSE None),
    deadline |-> IF IsSome(entry.folder) THEN entry.folder[1].deadline ELSE None,
    status |-> IF IsSome(entry.folder) THEN entry.folder[1].status ELSE "PUB" ]

slice(s, n) == IF Len(s) <= n THEN s ELSE SubSeq(s, 1, n)

\* Variant: the cap is applied to the entries that passed the two filters.
tendersCappedAfterFilters(allEntries, userProvinces, maxEntries) ==
  LET filteredByProvince ==
        slice(filterByProvinces(filterByConstruction(allEntries), userProvinces),
              maxEntries)
  IN  [k \in 1..Len(filteredByProvince) |-> transformEntry(filteredByProvince[k])]

\* Steps 2 to 5 of getConstructionTendersByProvinces for a configured cap.
tendersWithCap(allEntries, userProvinces, maxEntries) ==
  LET entriesToProcess == slice(allEntries, maxEntries)
      constructionEntries == filterByConstruction(entriesToProcess)
      filteredByProvince == filterByProvinces(constructionEntries, userProvinces)
  IN  [k \in 1..Len(filteredByProvince) |-> transformEntry(filteredByProvince[k])]

getConstructionTendersByProvinces(allEntries, userProvinces) ==
  tendersWithCap(allEntries, userProvinces, maxEntriesToProcess)

(***************************************************************************)
(* SyncService: the mapping of a feed entry to a record.                   *)
(***************************************************************************)
determineWorkType(cpvCode) ==
  IF ~IsSome(cpvCode)
  THEN <<"C", "o", "n", "s", "t", "r", "u", "c", "c", "i", "o'", "n", " ", "G", "e", "n", "e", "r", "a", "l">>
  ELSE LET cpv == jsToString(cpvCode[1])
       IN  IF startsWith(cpv, <<"4", "5", "2", "1">>)
           THEN <<"E", "d", "i", "f", "i", "c", "a", "c", "i", "o'", "n">>
           ELSE IF startsWith(cpv, <<"4", "5", "2", "2">>)
           THEN <<"I", "n", "g", "e", "n", "i", "e", "r", "i'", "a", " ", "C", "i", "v", "i", "l">>
           ELSE IF startsWith(cpv, <<"4", "5", "1", "1">>)
           THEN <<"D", "e", "m", "o", "l", "i", "c", "i", "o'", "n">>
           ELSE IF startsWith(cpv, <<"4", "5", "3", "1">>)
           THEN <<"I", "n", "s", "t", "a", "l", "a", "c", "i", "o", "n", "e", "s", " ", "E", "l", "e'", "c", "t", "r", "i", "c", "a", "s">>
           ELSE IF startsWith(cpv, <<"4", "5", "3", "2">>)
           THEN <<"F", "o", "n", "t", "a", "n", "e", "r", "i'", "a", " ", "y", " ", "C", "l", "i", "m", "a", "t", "i", "z", "a", "c", "i", "o'", "n">>
           ELSE IF startsWith(cpv, <<"4", "5", "4", "1">>)
           THEN <<"R", "e", "h", "a", "b", "i", "l", "i", "t", "a", "c", "i", "o'", "n">>
           ELSE <<"C", "o", "n", "s", "t", "r", "u", "c", "c", "i", "o'", "n", " ", "G", "e", "n", "e", "r", "a", "l">>

mapStatus(statusCode) ==
  CASE statusCode = "PUB" -> "active"
    [] statusCode = "ADJ" -> "awarded"
    [] statusCode = "EV" -> "active"
    [] statusCode = "RES" -> "closed"
    [] statusCode = "AN" -> "closed"
    [] OTHER -> "active"

\* tender.contract_folder_id || tender.id
externalIdOf(tender) ==
  IF IsSome(tender.contract_folder_id) THEN tender.contract_folder_id[1] ELSE tender.id

\* The object written to the record store.  It carries no id.  The fields
\* that are copied without being read again (description, contracting body,
\* source url, raw content, fetched_at) are left out.
transformTenderData(tender) ==
  [ id |-> None,
    external_id |-> externalIdOf(tender),
    title |-> IF Len(tender.title) > 0 THEN tender.title
              ELSE <<"S", "i", "n", " ", "t", "i'", "t", "u", "l", "o">>,
    province |-> IF IsSome(tender.province) /\ Len(tender.province[1]) > 0
                 THEN tender.province
                 ELSE Some(<<"S", "i", "n", " ", "e", "s", "p", "e", "c", "i", "f", "i", "c", "a", "r">>),
    work_type |-> determineWorkType(tender.cpv_code),
    budget |-> tender.budget,
    deadline |-> tender.deadline,
    status |-> mapStatus(tender.status),
    is_active |-> TRUE ]

StaleHours == 24
HoursPerDay == 24

\* Variant: a record updated exactly 24 hours ago counts as stale.
shouldUpdateAtLeast(existing, now) ==
  (now - existing.updated_at) * HoursPerDay >= StaleHours * TicksPerDay

\* hoursSinceUpdate > 24, the clock and updated_at being tick counts.
shouldUpdate(existing, now) ==
  (now - existing.updated_at) * HoursPerDay > StaleHours * TicksPerDay

(***************************************************************************)
(* The world the service runs in: the subscribers and the feed.            *)
(***************************************************************************)
Madrid == <<"M", "a", "d", "r", "i", "d">>
Sevilla == <<"S", "e", "v", "i", "l", "l", "a">>
MalagaAccent == <<"M", "a'", "l", "a", "g", "a">>
MalagaPlain == <<"M", "a", "l", "a", "g", "a">>
ObraCivil == <<"O", "b", "r", "a", " ", "c", "i", "v", "i", "l">>

Subscriber(uid, st, onb, pref, locs, bmin, bmax, secs) ==
  [ user_id |-> uid, subscription_status |-> st, onboarding_completed |-> onb,
    preferred_province |-> pref, locations |-> locs,
    budget_min |-> bmin, budget_max |-> bmax, sectors |-> secs ]

\* The subscriber populations the runs are checked against (rows of
\* companies joined with user_profiles).
UserWorlds ==
  { << Subscriber("u1", "active", TRUE, Some(Madrid), None,
                  Some(100000), Some(500000), Some(<<>>)),
       Subscriber("u2", "trial", TRUE, None, Some(<<Sevilla, Madrid>>),
                  Some(100000), Some(500000), Some(<<ObraCivil>>)),
       Subscriber("u3", "cancelled", TRUE, Some(Madrid), None, None, None, None),
       Subscriber("u4", "active", FALSE, Some(Madrid), None, None, None, None),
       Subscriber("u5", "active", TRUE, Some(MalagaAccent), Some(<<>>),
                  None, None, None) >>,
    << Subscriber("u3", "cancelled", TRUE, Some(Madrid), None, None, None, None),
       Subscriber("u4", "active", FALSE, Some(Madrid), None, None, None, None) >> }

\* An entry of the parsed feed with a structured address and one
\* classification element.
Entry(eid, ttl, prov, cpv, bud, dl, st) ==
  [ id |-> eid, title |-> ttl, summary |-> <<>>,
    folder |-> Some([ contract_folder_id |-> None,
                      project |-> Some([ commodity |->
                                           Some([ isArray |-> FALSE,
                                                  items |-> << IF IsSome(cpv)
                                                               THEN Some(AttrNode(cpv))
                                                               ELSE None >> ]),
                                         location |-> IF IsSome(prov)
                                                      THEN Some([ code |-> None,
                                                                  name |-> Some(TextNode(prov[1])) ])
                                                      ELSE None,
                                         budget |-> IF IsSome(bud)
                                                    THEN Some(TextNode(bud[1]))
                                                    ELSE None ]),
                      deadline |-> dl, status |-> st, body |-> None ]) ]

\* The entries the feed may publish.
FeedEntries ==
  { Entry("a", <<"R", "e", "f", "o", "r", "m", "a">>, Some(Madrid),
          Some(<<"4", "5", "2", "1", "0", "0", "0", "0">>), Some(<<"3", "0", "0", "0", "0", "0">>),
          Some(20 * TicksPerDay), "PUB"),
    Entry("b", <<"N", "a", "v", "e">>, Some(Madrid),
          Some(<<"4", "5", "0", "0", "0", "0", "0", "0">>), Some(<<"5", "0", "0", "0", "0", "0", "0">>),
          Some(8 * TicksPerDay - 1), "RES"),
    Entry("b", <<"P", "u", "e", "n", "t", "e">>, Some(Madrid),
          Some(<<"4", "5", "0", "0", "0", "0", "0", "0">>), Some(<<"5", "0", "0", "0", "0", "0", "0">>),
          Some(8 * TicksPerDay - 1), "PUB"),
    Entry("d", <<"N", "a", "v", "e">>, Some(Madrid),
          Some(<<"7", "9", "0", "0", "0", "0", "0", "0">>), None, None, "PUB"),
    Entry("e", <<"N", "a", "v", "e">>, Some(MalagaPlain),
          Some(<<"4", "5", "0", "0", "0", "0", "0", "0">>), None, None, "PUB") }

\* The feeds of at most n entries.
Feeds(n) == UNION { [1..k -> FeedEntries] : k \in 0..n }

(***************************************************************************)
(* State.                                                                  *)
(***************************************************************************)
VARIABLES
  users,          \* rows of companies joined with user_profiles (read only)
  clock,          \* Date.now(), in ticks
  events,         \* external events so far: triggers, feed entries, ticks, views
  triggers,       \* calls of SyncJob.execute so far
  isRunning,      \* SyncJob.isRunning
  skipped,        \* executions skipped because a run was in flight
  runs,           \* the runSync invocations in flight, each with its locals
  tendersTbl,     \* table tenders
  matchesTbl,     \* table user_tender_matches
  nextTenderId,   \* next id the store gives to a tender row
  nextMatchId,    \* next id the store gives to a match row
  syncLogs,       \* table sync_logs
  probe           \* inputs and results of the pure functions under check

vars == << users, clock, events, triggers, isRunning, skipped, runs,
           tendersTbl, matchesTbl, nextTenderId, nextMatchId, syncLogs, probe >>

NoProbe == [stage |-> "off"]

(***************************************************************************)
(* Queries on the subscriber tables.                                       *)
(***************************************************************************)
isActiveStatus(st) == st \in {"trial", "active"}

addUnique(seq, v) == IF listIncludes(seq, v) THEN seq ELSE Append(seq, v)

RECURSIVE addAll(_, _)
addAll(seq, list) ==
  IF Len(list) = 0 THEN seq
  ELSE addAll(IF Len(Head(list)) > 0 THEN addUnique(seq, Head(list)) ELSE seq,
              Tail(list))

RECURSIVE collectProvinces(_, _)
collectProvinces(profiles, acc) ==
  IF Len(profiles) = 0 THEN acc
  ELSE LET profile == Head(profiles)
           withPreferred ==
             IF IsSome(profile.preferred_province)
                /\ Len(profile.preferred_province[1]) > 0
             THEN addUnique(acc, profile.preferred_province[1])
             ELSE acc
           withLocations ==
             IF IsSome(profile.locations)
             THEN addAll(withPreferred, profile.locations[1])
             ELSE withPreferred
       IN  collectProvinces(Tail(profiles), withLocations)

\* Variant: the profiles are not filtered on onboarding_completed.
completedProfilesAny(table) ==
  SelectSeq(table, LAMBDA u : isActiveStatus(u.subscription_status))

completedProfiles(table) ==
  SelectSeq(table, LAMBDA u : isActiveStatus(u.subscription_status)
                              /\ u.onboarding_completed)

getUserProvinces(table) == collectProvinces(completedProfiles(table), <<>>)

\* Variant: every profile is taken as a candidate.
hasProvinceAny(profile, province) == TRUE

hasProvince(profile, province) ==
  \/ profile.preferred_province = province
  \/ /\ IsSome(profile.locations)
     /\ IsSome(province)
     /\ listIncludes(profile.locations[1], province[1])

getUsersByProvince(table, province) ==
  SelectSeq(completedProfiles(table), LAMBDA profile : hasProvince(profile, province))

(***************************************************************************)
(* MatchingService: creation of matches.                                   *)
(***************************************************************************)
MatchThreshold == 60

getMatchReasons(tender, user, score, now) ==
  (IF user.preferred_province = tender.province THEN << "Ubicacion" >> ELSE <<>>)
  \o (IF truthyNum(tender.budget) /\ truthyNum(user.budget_min)
         /\ truthyNum(user.budget_max)
         /\ tender.budget[1] >= user.budget_min[1]
         /\ tender.budget[1] <= user.budget_max[1]
      THEN << "Presupuesto" >> ELSE <<>>)
  \o (IF IsSome(user.sectors) /\ Len(user.sectors[1]) > 0
      THEN << "Sector" >> ELSE <<>>)
  \o (IF IsSome(tender.deadline) THEN << "Plazo" >> ELSE <<>>)
  \o << "Match score" >>

\* The rows createMatch's lookup selects; .single() yields a row only when
\* exactly one is selected.
matchRowsOf(table, uid, tid) ==
  { m \in table : m.user_id = uid /\ m.tender_id = tid }

\* Variant: the lookup of an existing match never finds one.
existingMatchNever(table, uid, tid) == FALSE

existingMatch(table, uid, tid) ==
  IsSome(tid) /\ Cardinality(matchRowsOf(table, uid, tid)) = 1

\* The match store refuses a row that names no record.
storeAcceptsMatch(tid) == IsSome(tid)

\* matchesByUser[uid] || 0
countFor(byUser, uid) == IF uid \in DOMAIN byUser THEN byUser[uid] ELSE 0

shouldCreateMatch(matchScore) == matchScore >= MatchThreshold

\* createMatch: null when a match exists or the insert fails, else the row.
createMatch(table, rowId, user, tender, matchScore, now) ==
  IF existingMatch(table, user.user_id, tender.id) THEN None
  ELSE IF ~storeAcceptsMatch(tender.id) THEN None
  ELSE Some([ id |-> rowId, user_id |-> user.user_id,
              tender_id |-> tender.id, match_score |-> matchScore,
              match_reasons |-> getMatchReasons(tender, user, matchScore, now),
              status |-> "new", created_at |-> now, notified_at |-> None ])

\* Variant: the counters are raised whatever createMatch returned.
matchCountsAlways(match) == TRUE

\* if (match) { totalMatches++; matchesByUser[...]++ }
matchCounts(match) == IsSome(match)

\* matchTendersWithUsers, the body of the loop over the users of one
\* tender.  acc carries the match table, the next row id, totalMatches,
\* matchesByUser and the evaluations made.
RECURSIVE matchUsers(_, _, _, _)
matchUsers(candidates, tender, now, acc) ==
  IF Len(candidates) = 0 THEN acc
  ELSE
    LET user == Head(candidates)
        matchScore == calculateMatchScore(tender, user, now)
        match == IF shouldCreateMatch(matchScore)
                 THEN createMatch(acc.table, acc.nextId, user, tender, matchScore, now)
                 ELSE None
        counted == shouldCreateMatch(matchScore) /\ matchCounts(match)
        next ==
          [ table |-> IF IsSome(match) THEN acc.table \cup {match[1]} ELSE acc.table,
            nextId |-> IF IsSome(match) THEN acc.nextId + 1 ELSE acc.nextId,
            total |-> IF counted THEN acc.total + 1 ELSE acc.total,
            byUser |-> IF counted
                       THEN [u \in DOMAIN acc.byUser \cup {user.user_id} |->
                               IF u = user.user_id
                               THEN countFor(acc.byUser, u) + 1
                               ELSE acc.byUser[u]]
                       ELSE acc.byUser,
            scored |-> Append(acc.scored,
                              [ user_id |-> user.user_id, tender_id |-> tender.id,
                                score |-> matchScore,
                                existed |-> existingMatch(acc.table, user.user_id, tender.id),
                                created |-> IsSome(match) ]) ]
    IN  matchUsers(Tail(candidates), tender, now, next)

(***************************************************************************)
(* Initial state: empty stores, no run in flight.                          *)
(***************************************************************************)
SystemInit ==
  /\ users \in UserWorlds
  /\ clock = 0
  /\ events = 0
  /\ triggers = 0
  /\ isRunning = FALSE
  /\ skipped = 0
  /\ runs = <<>>
  /\ tendersTbl = {}
  /\ matchesTbl = {}
  /\ nextTenderId = 1
  /\ nextMatchId = 1
  /\ syncLogs = <<>>

Init == SystemInit /\ probe = NoProbe

storeVars == << tendersTbl, matchesTbl, nextTenderId, nextMatchId >>
jobVars == << isRunning, skipped, runs >>

NewRun(logId) ==
  [ pc |-> "provinces", log |-> logId, userProvinces |-> <<>>, tenders |-> <<>>,
    i |-> 1, newTenders |-> <<>>, updatedTenders |-> <<>>, errors |-> <<>>,
    toMatch |-> <<>>, j |-> 1, totalMatches |-> 0, matchesByUser |-> <<>>,
    scored |-> <<>>, error |-> None, faults |-> <<>> ]

\* Variant: the flag is released at the end of the try block only.
releaseAfterSuccess(raised) == raised

\* finally { this.isRunning = false }, after runSync returned or raised.
finallyRelease(raised) == FALSE

\* Variant: execute without the check of the flag.
executeGuardNever == FALSE

\* if (this.isRunning) { warn; return }
executeGuard == isRunning

\* SyncJob.execute, up to the creation of the sync log by runSync.  The
\* cron callback, the run-on-start call and runNow all come here.
Execute ==
  /\ events < MaxEvents
  /\ events' = events + 1
  /\ triggers' = triggers + 1
  /\ IF executeGuard
     THEN /\ skipped' = skipped + 1
          /\ UNCHANGED << isRunning, runs, syncLogs >>
     ELSE /\ isRunning' = TRUE
          /\ syncLogs' = Append(syncLogs, [status |-> "running", error_message |-> None])
          /\ runs' = Append(runs, NewRun(Len(syncLogs) + 1))
          /\ UNCHANGED skipped
  /\ UNCHANGED << users, clock, storeVars, probe >>

dropRun(r) == [k \in 1..(Len(runs) - 1) |-> IF k < r THEN runs[k] ELSE runs[k + 1]]

updateSyncLog(logId, status) == [syncLogs EXCEPT ![logId].status = status]

\* runSync: no subscriber province is configured; the log is completed and
\* the run returns, then execute's finally releases the flag.
NoProvinces(r) ==
  /\ runs[r].pc = "provinces"
  /\ Len(getUserProvinces(users)) = 0
  /\ syncLogs' = updateSyncLog(runs[r].log, "completed")
  /\ runs' = dropRun(r)
  /\ isRunning' = finallyRelease(FALSE)
  /\ UNCHANGED << users, clock, events, triggers, skipped, storeVars, probe >>

\* runSync: the provinces are read and the feed is fetched and filtered.
FetchTenders(r) ==
  /\ runs[r].pc = "provinces"
  /\ Len(getUserProvinces(users)) > 0
  /\ \E feed \in Feeds(Min(MaxEvents - events, MaxFeed)) :
       /\ events' = events + Len(feed)
       /\ runs' = [runs EXCEPT ![r].pc = "process",
                            ![r].userProvinces = getUserProvinces(users),
                            ![r].tenders =
                               getConstructionTendersByProvinces(
                                 feed, getUserProvinces(users))]
  /\ UNCHANGED << users, clock, triggers, isRunning, skipped,
                  storeVars, syncLogs, probe >>

\* getFeed: the message of the error it throws when the request or the
\* parsing of the document fails.
FeedError == "Error en API PLACSP"

\* Variant: the log of a failed run is closed as completed.
failedSyncLogCompleted(logs, logId, message) ==
  [logs EXCEPT ![logId].status = "completed"]

\* runSync, catch: updateSyncLog(syncLog.id, {status: 'error', error_message}).
failedSyncLog(logs, logId, message) ==
  [logs EXCEPT ![logId].status = "error", ![logId].error_message = Some(message)]

\* runSync: the request of the feed or its parsing fails.  getFeed throws,
\* getConstructionTendersByProvinces throws it again, and the catch of
\* runSync sets the log to 'error' and throws it to execute.
FetchFails(r) ==
  /\ runs[r].pc = "provinces"
  /\ Len(getUserProvinces(users)) > 0
  /\ events < MaxEvents
  /\ events' = events + 1
  /\ syncLogs' = failedSyncLog(syncLogs, runs[r].log, FeedError)
  /\ runs' = [runs EXCEPT ![r].pc = "raised", ![r].error = Some(FeedError)]
  /\ UNCHANGED << users, clock, triggers, isRunning, skipped, storeVars, probe >>

\* execute: runSync has thrown; the catch logs the error and the finally
\* releases the flag.
ExecuteCatch(r) ==
  /\ runs[r].pc = "raised"
  /\ runs' = dropRun(r)
  /\ isRunning' = finallyRelease(TRUE)
  /\ UNCHANGED << users, clock, events, triggers, skipped, storeVars,
                  syncLogs, probe >>

\* .eq('external_id', externalId).single(): the row when exactly one is
\* selected, else null.
tenderRowsOf(table, externalId) == { t \in table : t.external_id = externalId }

\* Variant: the lookup never finds the stored record.
lookupTenderNever(table, externalId) == None

lookupTender(table, externalId) ==
  IF Cardinality(tenderRowsOf(table, externalId)) = 1
  THEN Some(CHOOSE t \in tenderRowsOf(table, externalId) : TRUE)
  ELSE None

\* The columns the record store fills in by itself on a write: the id of
\* the row and updated_at, the time of the write.
storeDefaults(rowId, now) == [ id |-> Some(rowId), updated_at |-> now ]

\* The row the record store keeps for tenderData (.insert(tenderData) or
\* .update(tenderData), then .select().single()).
storedRow(tenderData, defaults) ==
  [ id |-> defaults.id, external_id |-> tenderData.external_id,
    title |-> tenderData.title, province |-> tenderData.province,
    work_type |-> tenderData.work_type, budget |-> tenderData.budget,
    deadline |-> tenderData.deadline, status |-> tenderData.status,
    is_active |-> tenderData.is_active, updated_at |-> defaults.updated_at ]

\* The store call of one iteration of processTenders that fails, if any:
\* the lookup raising, the write (insert or update) raising, the store
\* reporting an error for the write ({ error } returned by the call), or
\* the write of the raw copy failing.
StoreFaults == { "none", "lookup", "write", "reported", "raw" }

\* The record of the failed store calls of a run, kept for the properties.
noteFault(run, call, raised) ==
  [ run EXCEPT !.faults = Append(@, [ index |-> run.i, call |-> call,
                                      raised |-> raised ]) ]

\* Variant: a failed record is reported as a new one as well.
failedTenderAlsoNew(run, tender, message) ==
  [ run EXCEPT !.i = @ + 1,
               !.newTenders = Append(@, tender),
               !.errors = Append(@, [ tender_id |-> tender.id, error |-> message ]) ]

\* processTenders, the catch of one iteration: the error is added to the
\* list and the loop goes on.
failedTender(run, tender, message) ==
  [ run EXCEPT !.i = @ + 1,
               !.errors = Append(@, [ tender_id |-> tender.id, error |-> message ]) ]

\* Variant: a failure of the raw copy reaches the catch of the iteration.
saveRawTenderThrows(run, tender, fault) ==
  IF fault = "raw"
  THEN noteFault([ run EXCEPT !.errors = Append(@, [ tender_id |-> tender.id,
                                                     error |-> "raw" ]) ],
                 "raw", TRUE)
  ELSE run

\* saveRawTender: the insert into tenders_raw is awaited inside its own
\* try/catch and its result is not read, so a failure changes nothing.
\* The rows of tenders_raw are not part of the model.
saveRawTender(run, tender, fault) ==
  IF fault = "raw" THEN noteFault(run, "raw", TRUE) ELSE run

\* processTenders, the body of the loop for one tender: lookup, then update
\* (when stale), insert (when absent) or nothing, then the raw copy.  A
\* store call that raises ends the iteration in the catch; so does an
\* insert for which the store reports an error (if (error) throw error).
\* The result of the update is not read.
ProcessTender(r) ==
  /\ runs[r].pc = "process"
  /\ runs[r].i <= Len(runs[r].tenders)
  /\ \E fault \in StoreFaults :
       /\ fault # "none" => events < MaxEvents
       /\ events' = IF fault = "none" THEN events ELSE events + 1
       /\ LET tender == runs[r].tenders[runs[r].i]
              externalId == externalIdOf(tender)
              found == lookupTender(tendersTbl, externalId)
              tenderData == transformTenderData(tender)
          IN  IF fault = "lookup"
              THEN /\ runs' = [runs EXCEPT
                                 ![r] = failedTender(noteFault(@, "lookup", TRUE),
                                                     tender, "lookup")]
                   /\ UNCHANGED << tendersTbl, nextTenderId >>
              ELSE IF IsSome(found)
              THEN LET existing == found[1]
                   IN  IF shouldUpdate(existing, clock)
                       THEN IF fault = "write"
                            THEN /\ runs' = [runs EXCEPT
                                               ![r] = failedTender(
                                                        noteFault(@, "update", TRUE),
                                                        tender, "update")]
                                 /\ UNCHANGED << tendersTbl, nextTenderId >>
                            ELSE /\ tendersTbl' =
                                      IF fault = "reported" THEN tendersTbl
                                      ELSE (tendersTbl \ {existing}) \cup
                                             { storedRow(tenderData,
                                                         storeDefaults(existing.id[1], clock)) }
                                 /\ runs' = [runs EXCEPT
                                               ![r] = [ saveRawTender(
                                                          IF fault = "reported"
                                                          THEN noteFault(@, "update", FALSE)
                                                          ELSE @, tender, fault)
                                                        EXCEPT
                                                          !.i = @ + 1,
                                                          !.updatedTenders =
                                                             Append(@, tenderData) ]]
                                 /\ UNCHANGED nextTenderId
                       ELSE /\ fault \in { "none", "raw" }
                            /\ runs' = [runs EXCEPT
                                          ![r] = [ saveRawTender(@, tender, fault)
                                                   EXCEPT !.i = @ + 1 ]]
                            /\ UNCHANGED << tendersTbl, nextTenderId >>
              ELSE IF fault \in { "write", "reported" }
                   THEN /\ runs' = [runs EXCEPT
                                      ![r] = failedTender(
                                               noteFault(@, "insert", fault = "write"),
                                               tender, "insert")]
                        /\ UNCHANGED << tendersTbl, nextTenderId >>
                   ELSE LET inserted == storedRow(tenderData, storeDefaults(nextTenderId, clock))
                        IN  /\ tendersTbl' = tendersTbl \cup {inserted}
                            /\ nextTenderId' = nextTenderId + 1
                            /\ runs' = [runs EXCEPT
                                          ![r] = [ saveRawTender(@, tender, fault)
                                                   EXCEPT
                                                     !.i = @ + 1,
                                                     !.newTenders = Append(@, inserted) ]]
  /\ UNCHANGED << users, clock, triggers, isRunning, skipped,
                  matchesTbl, nextMatchId, syncLogs, probe >>

\* .in('external_id', externalIds).eq('is_active', true), in table order.
RECURSIVE asSeq(_)
asSeq(set) ==
  IF set = {} THEN <<>>
  ELSE LET first == CHOOSE t \in set : \A o \in set : t.id[1] <= o.id[1]
       IN  <<first>> \o asSeq(set \ {first})

existingTendersOf(table, tenders) ==
  asSeq({ t \in table : /\ \E k \in 1..Len(tenders) :
                              t.external_id = externalIdOf(tenders[k])
                        /\ t.is_active })

\* runSync, step 5: the tenders handed to matching are the new and the
\* updated ones, or, when there is none, the stored ones of this feed.
tendersToMatch(run, table) ==
  LET allTendersToMatch == run.newTenders \o run.updatedTenders
  IN  IF Len(allTendersToMatch) = 0 /\ Len(run.tenders) > 0
         /\ Len(existingTendersOf(table, run.tenders)) > 0
      THEN existingTendersOf(table, run.tenders)
      ELSE allTendersToMatch

\* Variant: matching starts while records are left to process.
processTendersReturnedAnytime(run) == TRUE

\* processTenders has returned: its for loop has gone through the tenders.
processTendersReturned(run) == run.i > Len(run.tenders)

StartMatching(r) ==
  /\ runs[r].pc = "process"
  /\ processTendersReturned(runs[r])
  /\ runs' = [runs EXCEPT ![r].pc = "match",
                          ![r].toMatch = tendersToMatch(runs[r], tendersTbl)]
  /\ UNCHANGED << users, clock, events, triggers, isRunning, skipped,
                  storeVars, syncLogs, probe >>

\* matchTendersWithUsers, the body of the loop for one tender.
MatchTender(r) ==
  /\ runs[r].pc = "match"
  /\ runs[r].j <= Len(runs[r].toMatch)
  /\ LET tender == runs[r].toMatch[runs[r].j]
         result == matchUsers(getUsersByProvince(users, tender.province), tender, clock,
                              [ table |-> matchesTbl, nextId |-> nextMatchId,
                                total |-> runs[r].totalMatches,
                                byUser |-> runs[r].matchesByUser,
                                scored |-> <<>> ])
     IN  /\ matchesTbl' = result.table
         /\ nextMatchId' = result.nextId
         /\ runs' = [runs EXCEPT ![r].j = @ + 1,
                                 ![r].totalMatches = result.total,
                                 ![r].matchesByUser = result.byUser,
                                 ![r].scored = result.scored]
  /\ UNCHANGED << users, clock, events, triggers, isRunning, skipped,
                  tendersTbl, nextTenderId, syncLogs, probe >>

\* The message of the error the store gives for a refused update of a log.
StoreError == "Error de Supabase"

\* runSync, catch: 'if (syncLog) await updateSyncLog(...)'.  The log is set
\* to 'error' when the store takes the update; when the store refuses it,
\* updateSyncLog throws out of the catch and the log is left as it was.
catchSyncLog(logs, logId, message, written) ==
  IF written THEN failedSyncLog(logs, logId, message) ELSE logs

\* runSync has reached the update that completes its log: after the
\* matching, or in the early return for no provinces.
atCompletion(run) ==
  \/ run.pc = "match" /\ run.j > Len(run.toMatch)
  \/ run.pc = "provinces" /\ Len(getUserProvinces(users)) = 0

\* runSync: the store refuses the update that completes the log.
\* updateSyncLog throws, the catch of runSync tries to set the log to
\* 'error', which the store takes or refuses as well, and the error is
\* thrown to execute.
CompleteFails(r) ==
  /\ atCompletion(runs[r])
  /\ \E written \in BOOLEAN :
       /\ events + (IF written THEN 1 ELSE 2) <= MaxEvents
       /\ events' = events + (IF written THEN 1 ELSE 2)
       /\ syncLogs' = catchSyncLog(syncLogs, runs[r].log, StoreError, written)
       /\ runs' = [runs EXCEPT
                     ![r] = [ (IF written
                               THEN noteFault(@, "updateSyncLog", TRUE)
                               ELSE noteFault(noteFault(@, "updateSyncLog", TRUE),
                                              "updateSyncLog in catch", TRUE))
                              EXCEPT !.pc = "raised", !.error = Some(StoreError) ]]
  /\ UNCHANGED << users, clock, triggers, isRunning, skipped, storeVars, probe >>

\* runSync completes the log and returns; execute's finally releases the flag.
FinishRun(r) ==
  /\ runs[r].pc = "match"
  /\ runs[r].j > Len(runs[r].toMatch)
  /\ syncLogs' = updateSyncLog(runs[r].log, "completed")
  /\ runs' = dropRun(r)
  /\ isRunning' = finallyRelease(FALSE)
  /\ UNCHANGED << users, clock, events, triggers, skipped, storeVars, probe >>

\* MatchingService.markMatchAsViewed(matchId, userId)
MarkMatchAsViewed ==
  /\ events < MaxEvents
  /\ events' = events + 1
  /\ \E m \in matchesTbl : \E uid \in {users[k].user_id : k \in 1..Len(users)} :
        /\ m.user_id = uid
        /\ m.status # "viewed"
        /\ matchesTbl' = (matchesTbl \ {m}) \cup {[m EXCEPT !.status = "viewed"]}
  /\ UNCHANGED << users, clock, triggers, jobVars, tendersTbl, nextTenderId,
                  nextMatchId, syncLogs, probe >>

\* Variant: the notification is written into the status.
notifiedUpdateWithStatus(m, now) ==
  [m EXCEPT !.status = "notified", !.notified_at = Some(now)]

\* The update of PATCH /api/matches/:matchId/notified: the time of the
\* notification is set, the status is left as it is.
notifiedUpdate(m, now) == [m EXCEPT !.notified_at = Some(now)]

\* PATCH /api/matches/:matchId/notified
MarkMatchAsNotified ==
  /\ events < MaxEvents
  /\ events' = events + 1
  /\ \E m \in matchesTbl :
        /\ notifiedUpdate(m, clock) # m
        /\ matchesTbl' = (matchesTbl \ {m}) \cup {notifiedUpdate(m, clock)}
  /\ UNCHANGED << users, clock, triggers, jobVars, tendersTbl, nextTenderId,
                  nextMatchId, syncLogs, probe >>

\* Time passes: a day, or a day and a tick.
Tick ==
  /\ runs = <<>>
  /\ events < MaxEvents
  /\ events' = events + 1
  /\ \E d \in {TicksPerDay, TicksPerDay + 1} : clock' = clock + d
  /\ UNCHANGED << users, triggers, jobVars, storeVars, syncLogs, probe >>

Next ==
  \/ Execute
  \/ \E r \in 1..Len(runs) : NoProvinces(r)
  \/ \E r \in 1..Len(runs) : FetchTenders(r)
  \/ \E r \in 1..Len(runs) : FetchFails(r)
  \/ \E r \in 1..Len(runs) : ExecuteCatch(r)
  \/ \E r \in 1..Len(runs) : ProcessTender(r)
  \/ \E r \in 1..Len(runs) : StartMatching(r)
  \/ \E r \in 1..Len(runs) : MatchTender(r)
  \/ \E r \in 1..Len(runs) : FinishRun(r)
  \/ \E r \in 1..Len(runs) : CompleteFails(r)
  \/ MarkMatchAsViewed
  \/ MarkMatchAsNotified
  \/ Tick

Spec == Init /\ [][Next]_vars

(***************************************************************************)
(* The service started on a store that holds a Record already: it was      *)
(* stored by an earlier life of the process, before the present            *)
(* subscribers were there, so no Match names it.                           *)
(***************************************************************************)
storedBefore ==
  { storedRow(transformTenderData(transformEntry(entry)), storeDefaults(1, 0)) :
      entry \in { e \in FeedEntries : e.id = "b" /\ e.title = <<"P", "u", "e", "n", "t", "e">> } }

InitStored ==
  /\ users \in UserWorlds
  /\ clock = 0
  /\ events = 0
  /\ triggers = 0
  /\ isRunning = FALSE
  /\ skipped = 0
  /\ runs = <<>>
  /\ tendersTbl = storedBefore
  /\ matchesTbl = {}
  /\ nextTenderId = 2
  /\ nextMatchId = 1
  /\ syncLogs = <<>>
  /\ probe = NoProbe

SpecStored == InitStored /\ [][Next]_vars

(***************************************************************************)
(* calculateMatchScore on its own: the inputs are drawn from the sets      *)
(* below and ScoreTender evaluates the function on them.                   *)
(***************************************************************************)
Reforma == <<"R", "e", "f", "o", "r", "m", "a">>
Edificacion == <<"E", "d", "i", "f", "i", "c", "a", "c", "i", "o'", "n">>
Nave == <<"N", "a", "v", "e">>
ConstruccionGeneral ==
  <<"C", "o", "n", "s", "t", "r", "u", "c", "c", "i", "o'", "n", " ", "G", "e", "n", "e", "r", "a", "l">>
Rehabilitacion ==
  <<"R", "e", "h", "a", "b", "i", "l", "i", "t", "a", "c", "i", "o'", "n", " ", "y", " ", "r", "e", "f", "o", "r", "m", "a", "s">>

ScoreProvinces == { Some(Madrid), Some(MalagaPlain) }
ScoreBudgets == { None, Some(60000), Some(300000), Some(900000), Some(5000000) }
ScoreWorks == { <<Reforma, Edificacion>>, <<Nave, ConstruccionGeneral>> }
ScoreStatuses == { "active", "closed" }
ScoreDeadlines ==
  { None, Some(0 - TicksPerDay), Some(7 * TicksPerDay - 1), Some(7 * TicksPerDay),
    Some(7 * TicksPerDay + 1), Some(15 * TicksPerDay), Some(15 * TicksPerDay + 1),
    Some(20 * TicksPerDay) }
\* preferred_province and locations
ScoreRegions ==
  { <<Some(Madrid), None>>, <<None, Some(<<Sevilla, Madrid>>)>>,
    <<Some(Madrid), Some(<<Madrid>>)>>, <<Some(MalagaAccent), Some(<<>>)>>,
    <<None, None>> }
\* budget_min and budget_max
ScoreRanges ==
  { <<None, None>>, <<Some(0), Some(500000)>>, <<Some(100000), Some(500000)>>,
    <<Some(400000), Some(500000)>> }
ScoreSectors == { Some(<<>>), Some(<<ObraCivil>>), Some(<<Rehabilitacion>>) }

ScoreTenders ==
  { [ province |-> pr, budget |-> b, title |-> w[1], work_type |-> w[2],
      status |-> st, deadline |-> dl ] :
      pr \in ScoreProvinces, b \in ScoreBudgets, w \in ScoreWorks,
      st \in ScoreStatuses, dl \in ScoreDeadlines }

ScoreUsers ==
  { [ preferred_province |-> rg[1], locations |-> rg[2],
      budget_min |-> rn[1], budget_max |-> rn[2], sectors |-> sc ] :
      rg \in ScoreRegions, rn \in ScoreRanges, sc \in ScoreSectors }

InitScore ==
  /\ users = <<>>
  /\ clock = 0
  /\ events = 0
  /\ triggers = 0
  /\ isRunning = FALSE
  /\ skipped = 0
  /\ runs = <<>>
  /\ tendersTbl = {}
  /\ matchesTbl = {}
  /\ nextTenderId = 1
  /\ nextMatchId = 1
  /\ syncLogs = <<>>
  /\ \E tender \in ScoreTenders : \E user \in ScoreUsers :
        probe = [ stage |-> "input", tender |-> tender, user |-> user, score |-> 0 ]

ScoreTender ==
  /\ probe.stage = "input"
  /\ probe' = [ probe EXCEPT
                  !.stage = "scored",
                  !.score = calculateMatchScore(probe.tender, probe.user, clock) ]
  /\ UNCHANGED << users, clock, events, triggers, jobVars, storeVars, syncLogs >>

NextScore == ScoreTender

SpecScore == InitScore /\ [][NextScore]_vars

(***************************************************************************)
(* The feed filters on their own: one entry of the parsed feed and one     *)
(* list of provinces of interest are drawn, and the extraction and both    *)
(* filters are applied to them.                                            *)
(***************************************************************************)
Cordoba == <<"C", "o'", "r", "d", "o", "b", "a">>
CordobaPlain == <<"C", "o", "r", "d", "o", "b", "a">>

\* The classification elements of an entry: missing, one element (text,
\* or an object with or without text), or a repeated element.
FeedItemCodes ==
  { None,
    Some(TextNode(<<"4", "5", "2", "1", "0", "0", "0", "0">>)),
    Some(AttrNode(Some(<<"4", "5", "0", "0", "0", "0", "0", "0">>))),
    Some(AttrNode(None)),
    Some(TextNode(<<"7", "9", "0", "0", "0", "0", "0", "0">>)),
    Some(TextNode(<<"1", "4", "5", "0", "0", "0", "0", "0">>)),
    Some(TextNode(<<"4">>)),
    Some(TextNode(<<>>)) }

FeedCommodities ==
  { None }
  \cup { Some([ isArray |-> FALSE, items |-> <<code>> ]) : code \in FeedItemCodes }
  \cup { Some([ isArray |-> TRUE, items |-> items ]) :
           items \in { << Some(TextNode(<<"4", "5", "2", "1", "0", "0", "0", "0">>)), Some(TextNode(<<"7", "9", "0", "0", "0", "0", "0", "0">>)) >>,
                       << Some(TextNode(<<"7", "9", "0", "0", "0", "0", "0", "0">>)), Some(TextNode(<<"4", "5", "2", "1", "0", "0", "0", "0">>)) >> } }

\* The address of an entry: missing, the name alone (text, object with
\* text, empty), or code and name.
FeedLocations ==
  { None,
    Some([ code |-> None, name |-> Some(TextNode(Madrid)) ]),
    Some([ code |-> None, name |-> Some(TextNode(<<" ", "M", "A", "D", "R", "I", "D", " ">>)) ]),
    Some([ code |-> None, name |-> Some(AttrNode(Some(MalagaAccent))) ]),
    Some([ code |-> None, name |-> Some(TextNode(CordobaPlain)) ]),
    Some([ code |-> None, name |-> Some(TextNode(<<>>)) ]),
    Some([ code |-> None, name |-> None ]),
    Some([ code |-> Some(TextNode(Sevilla)), name |-> Some(TextNode(Madrid)) ]),
    Some([ code |-> Some(TextNode(<<>>)), name |-> Some(TextNode(Madrid)) ]) }

FeedTitles ==
  { <<"N", "a", "v", "e">>,
    <<"O", "b", "r", "a", "s", " ", "e", "n", " ", "C", "o", "r", "d", "o", "b", "a">>,
    <<"O", "b", "r", "a", "s", " ", "e", "n", " ", "C", "O'", "R", "D", "O", "B", "A">>,
    <<"R", "e", "f", "o", "r", "m", "a", " ", "e", "n", " ", "M", "a", "d", "r", "i", "d">>,
    <<"V", "i", "a", " ", "M", "a", "l", "a", "g", "a", "-", "M", "a", "d", "r", "i", "d">> }

FeedSummaries == { <<>>, <<"S", "e", "v", "i", "l", "l", "a">> }

FeedBodies == { None, Some(TextNode(<<"A", "y", "u", "n", "t", "a", "m", "i", "e", "n", "t", "o", " ", "d", "e", " ", "M", "a", "d", "r", "i", "d">>)) }

FeedFolders ==
  { None }
  \cup { Some([ contract_folder_id |-> None, project |-> None,
                deadline |-> None, status |-> "PUB", body |-> body ]) :
           body \in FeedBodies }
  \cup { Some([ contract_folder_id |-> None,
                project |-> Some([ commodity |-> commodity, location |-> location,
                                   budget |-> None ]),
                deadline |-> None, status |-> "PUB", body |-> body ]) :
           commodity \in FeedCommodities, location \in FeedLocations,
           body \in FeedBodies }

\* The budget amount of an entry: missing, a number as text or as an
\* object with text, a text that is no number, an empty text, an object
\* without text, a number followed by a unit.
FeedBudgets ==
  { None,
    Some(TextNode(<<"3", "0", "0", "0", "0", "0">>)),
    Some(AttrNode(Some(<<"5", "0", "0", "0", "0", "0", "0">>))),
    Some(TextNode(<<"N", "/", "D">>)),
    Some(TextNode(<<>>)),
    Some(AttrNode(None)),
    Some(TextNode(<<" ", "6", "0", "0", "0", "0", " ", "E", "U", "R">>)) }

BudgetEntries ==
  { [ id |-> "a", title |-> <<"N", "a", "v", "e">>, summary |-> <<>>,
      folder |-> Some([ contract_folder_id |-> None,
                        project |-> Some([ commodity |->
                                             Some([ isArray |-> FALSE,
                                                    items |-> << Some(TextNode(
                                                      <<"4", "5", "2", "1", "0", "0", "0", "0">>)) >> ]),
                                           location |-> Some([ code |-> None,
                                                               name |-> Some(TextNode(Madrid)) ]),
                                           budget |-> budget ]),
                        deadline |-> None, status |-> "PUB", body |-> None ]) ] :
      budget \in FeedBudgets }

RawEntries ==
  { [ id |-> "a", title |-> title, summary |-> summary, folder |-> folder ] :
      title \in FeedTitles, summary \in FeedSummaries, folder \in FeedFolders }
  \cup BudgetEntries

ProvinceLists ==
  { <<>>, <<Madrid>>, << <<"M", "A'", "L", "A", "G", "A">> >>, <<Sevilla, CordobaPlain>>, <<Cordoba>> }

InitFeed ==
  /\ users = <<>>
  /\ clock = 0
  /\ events = 0
  /\ triggers = 0
  /\ isRunning = FALSE
  /\ skipped = 0
  /\ runs = <<>>
  /\ tendersTbl = {}
  /\ matchesTbl = {}
  /\ nextTenderId = 1
  /\ nextMatchId = 1
  /\ syncLogs = <<>>
  /\ \E entry \in RawEntries : \E provinces \in ProvinceLists :
        probe = [ stage |-> "entry", entry |-> entry, provinces |-> provinces,
                  construction |-> <<>>, byProvince |-> <<>>, tenders |-> <<>>,
                  transformed |-> <<>> ]

\* The filters applied to the feed that holds the entry alone.
FilterFeed ==
  /\ probe.stage = "entry"
  /\ probe' = [ probe EXCEPT
                  !.stage = "filtered",
                  !.construction = filterByConstruction(<<probe.entry>>),
                  !.byProvince = filterByProvinces(<<probe.entry>>, probe.provinces),
                  !.tenders = IF Len(probe.provinces) = 0 THEN <<>>
                              ELSE getConstructionTendersByProvinces(<<probe.entry>>,
                                                                     probe.provinces),
                  !.transformed = <<transformEntry(probe.entry)>> ]
  /\ UNCHANGED << users, clock, events, triggers, jobVars, storeVars, syncLogs >>

NextFeed == FilterFeed

SpecFeed == InitFeed /\ [][NextFeed]_vars

(***************************************************************************)
(* The cap on the feed: getConstructionTendersByProvinces applied to a     *)
(* whole feed under a configured maxEntriesToProcess smaller than the      *)
(* feed can be long.                                                       *)
(***************************************************************************)
MaxCapFeed == 3
MaxCap == 2

InitCap ==
  /\ users = <<>>
  /\ clock = 0
  /\ events = 0
  /\ triggers = 0
  /\ isRunning = FALSE
  /\ skipped = 0
  /\ runs = <<>>
  /\ tendersTbl = {}
  /\ matchesTbl = {}
  /\ nextTenderId = 1
  /\ nextMatchId = 1
  /\ syncLogs = <<>>
  /\ \E feed \in Feeds(MaxCapFeed) : \E maxEntries \in 1..MaxCap :
     \E provinces \in { <<Madrid>>, <<Madrid, MalagaPlain>> } :
        probe = [ stage |-> "feed", feed |-> feed, maxEntries |-> maxEntries,
                  provinces |-> provinces, tenders |-> <<>> ]

GetTendersWithCap ==
  /\ probe.stage = "feed"
  /\ probe' = [ probe EXCEPT
                  !.stage = "capped",
                  !.tenders = tendersWithCap(probe.feed, probe.provinces,
                                             probe.maxEntries) ]
  /\ UNCHANGED << users, clock, events, triggers, jobVars, storeVars, syncLogs >>

NextCap == GetTendersWithCap

SpecCap == InitCap /\ [][NextCap]_vars

(***************************************************************************)
(* Properties.                                                             *)
(***************************************************************************)
\* The form in which province names are compared: lower case, without
\* diacritics, without surrounding blanks.
foldedName(name) ==
  trimRight(trimLeft([i \in 1..Len(name) |-> stripMarks(lowerOf(name[i]))]))

\* The step of run r is one iteration of matchTendersWithUsers' loop.
MatchStep(r) ==
  /\ r \in DOMAIN runs /\ r \in DOMAIN runs'
  /\ runs[r].pc = "match" /\ runs'[r].pc = "match"
  /\ runs'[r].log = runs[r].log
  /\ runs'[r].j = runs[r].j + 1

\* The step of run r is one iteration of processTenders' loop.
ProcessStep(r) ==
  /\ r \in DOMAIN runs /\ r \in DOMAIN runs'
  /\ runs[r].pc = "process" /\ runs'[r].pc = "process"
  /\ runs'[r].log = runs[r].log
  /\ runs'[r].i = runs[r].i + 1

\* The same, when no store call of the iteration failed.
ProcessStepDone(r) == ProcessStep(r) /\ runs'[r].faults = runs[r].faults

\* The id of the stored record with this external id, if any.
recordIdOf(table, externalId) ==
  IF \E t \in table : t.external_id = externalId
  THEN (CHOOSE t \in table : t.external_id = externalId).id
  ELSE None

hasMatchFor(table, uid, rid) ==
  \E m \in table : m.user_id = uid /\ m.tender_id = rid

\* The tender the last matching step of a run handled.
lastMatched(run) == run.toMatch[run.j - 1]
hasMatched(run) == run.pc = "match" /\ run.j > 1

\* C1: for every (record, candidate subscriber) pair evaluated by
\* matchTendersWithUsers, a score below 60 creates no Match, and a score of
\* 60 or more creates one when no Match for that subscriber and record
\* exists yet.
C1_ThresholdCreatesMatch ==
  [][ \A r \in DOMAIN runs :
        MatchStep(r) =>
          LET tender == runs[r].toMatch[runs[r].j]
              rid == recordIdOf(tendersTbl, tender.external_id)
              candidates == getUsersByProvince(users, tender.province)
          IN  \A k \in 1..Len(candidates) :
                LET uid == candidates[k].user_id
                    score == calculateMatchScore(tender, candidates[k], clock)
                    had == hasMatchFor(matchesTbl, uid, rid)
                    has == hasMatchFor(matchesTbl', uid, rid)
                IN  /\ score < 60 => (has <=> had)
                    /\ (score >= 60 /\ ~had) => has ]_vars

\* C1, for the tenders that reach matching with their record id (the
\* inserted ones and those read back from the store): the threshold decides.
C1_ThresholdWithRecordId ==
  [][ \A r \in DOMAIN runs :
        MatchStep(r) =>
          LET tender == runs[r].toMatch[runs[r].j]
              candidates == getUsersByProvince(users, tender.province)
          IN  IsSome(tender.id) =>
                \A k \in 1..Len(candidates) :
                  LET uid == candidates[k].user_id
                      score == calculateMatchScore(tender, candidates[k], clock)
                      had == hasMatchFor(matchesTbl, uid, tender.id)
                      has == hasMatchFor(matchesTbl', uid, tender.id)
                  IN  /\ score < 60 => (has <=> had)
                      /\ (score >= 60 /\ ~had) => has ]_vars

holdsDataOf(table, rid, tender) ==
  \E t \in table :
     /\ t.id = rid
     /\ t.external_id = externalIdOf(tender)
     /\ t.title = transformTenderData(tender).title
     /\ t.status = transformTenderData(tender).status
     /\ t.budget = tender.budget
     /\ t.deadline = tender.deadline

\* C4 as stated: a fetched Record whose externalId is stored is overwritten
\* when the stored Record was updated 24 hours ago or more (exactly 24
\* hours included), and left unchanged when it was updated more recently.
C4_OverwrittenFrom24Hours ==
  [][ \A r \in DOMAIN runs :
        ProcessStepDone(r) =>
          LET tender == runs[r].tenders[runs[r].i]
              rid == recordIdOf(tendersTbl, externalIdOf(tender))
          IN  IsSome(rid) =>
                LET existing == CHOOSE t \in tendersTbl : t.id = rid
                    age == clock - existing.updated_at
                IN  /\ age < TicksPerDay => tendersTbl' = tendersTbl
                    /\ age >= TicksPerDay =>
                         holdsDataOf(tendersTbl', rid, tender) ]_vars

\* C4, as the code decides it: the stored Record is overwritten with the
\* fetched data when it was updated strictly more than 24 hours ago, and
\* left unchanged when it was updated 24 hours ago or less.
C4_OverwrittenAfter24Hours ==
  [][ \A r \in DOMAIN runs :
        ProcessStepDone(r) =>
          LET tender == runs[r].tenders[runs[r].i]
              rid == recordIdOf(tendersTbl, externalIdOf(tender))
          IN  IsSome(rid) =>
                LET existing == CHOOSE t \in tendersTbl : t.id = rid
                    age == clock - existing.updated_at
                IN  /\ age <= TicksPerDay => tendersTbl' = tendersTbl
                    /\ age > TicksPerDay =>
                         /\ holdsDataOf(tendersTbl', rid, tender)
                         /\ Cardinality(tendersTbl') = Cardinality(tendersTbl) ]_vars

\* A run has overwritten a record, stored more than 24 hours before under
\* another title, with the fetched data.
C4_Witness ==
  \E r \in DOMAIN runs :
     /\ runs[r].pc = "process"
     /\ runs[r].i > 1
     /\ Len(runs[r].updatedTenders) = 1
     /\ clock > TicksPerDay
     /\ \E t \in tendersTbl :
           /\ t.external_id = runs[r].updatedTenders[1].external_id
           /\ t.title = runs[r].updatedTenders[1].title
           /\ t.title = <<"P", "u", "e", "n", "t", "e">>

\* C5: at most one run is in flight, and a trigger that arrives while a run
\* is in flight starts no run, changes no store and leaves nothing queued.
C5_SingleRunInFlight ==
  /\ [](Len(runs) <= 1)
  /\ [][ (triggers' = triggers + 1 /\ Len(runs) > 0) =>
           /\ runs' = runs
           /\ isRunning' = isRunning
           /\ syncLogs' = syncLogs
           /\ UNCHANGED storeVars ]_vars

\* A trigger has arrived while a run was processing its records.
C5_Witness ==
  /\ skipped > 0
  /\ Len(runs) = 1
  /\ runs[1].pc = "process"
  /\ runs[1].i > 1
  /\ isRunning

\* The pair of the example of the score table: a Madrid record of 300000,
\* active, deadline 20 days out; a subscriber preferring Madrid, with the
\* range 100000 to 500000 and no sector.
C8_ExampleTender(tender) ==
  /\ tender.province = Some(Madrid)
  /\ tender.budget = Some(300000)
  /\ tender.status = "active"
  /\ IsSome(tender.deadline)
  /\ tender.deadline[1] - clock = 20 * TicksPerDay

C8_ExampleUser(user) ==
  /\ isActiveStatus(user.subscription_status) /\ user.onboarding_completed
  /\ user.preferred_province = Some(Madrid)
  /\ user.budget_min = Some(100000)
  /\ user.budget_max = Some(500000)
  /\ user.sectors = Some(<<>>)

\* C8: the pair of the example scores 40 + 30 + 15 + 5 + 5 = 95, and the
\* matching step leaves a Match for it in the store.
C8_ExampleScores95 ==
  \A r \in DOMAIN runs :
     (hasMatched(runs[r]) /\ C8_ExampleTender(lastMatched(runs[r]))) =>
        \A u \in 1..Len(users) :
           C8_ExampleUser(users[u]) =>
              /\ \E k \in 1..Len(runs[r].scored) :
                    /\ runs[r].scored[k].user_id = users[u].user_id
                    /\ runs[r].scored[k].score = 95
              /\ hasMatchFor(matchesTbl, users[u].user_id,
                             recordIdOf(tendersTbl, lastMatched(runs[r]).external_id))

\* The pair of the example has been through a matching step.
C8_Witness ==
  \E r \in DOMAIN runs :
     /\ hasMatched(runs[r])
     /\ C8_ExampleTender(lastMatched(runs[r]))
     /\ \E u \in 1..Len(users) : C8_ExampleUser(users[u])

\* The subscribers the candidate query is to return for a region: trial or
\* active, onboarded, and the region is the preferred one or a listed one.
C9_Qualifies(user, province) ==
  /\ user.subscription_status \in {"trial", "active"}
  /\ user.onboarding_completed = TRUE
  /\ \/ user.preferred_province = province
     \/ /\ IsSome(user.locations) /\ IsSome(province)
        /\ \E i \in 1..Len(user.locations[1]) : user.locations[1][i] = province[1]

\* C9: for a record, the subscribers scored are exactly the qualifying
\* ones, and every Match belongs to a subscriber qualifying for its record.
C9_CandidatesAreTheQualified ==
  /\ \A r \in DOMAIN runs :
        hasMatched(runs[r]) =>
           { runs[r].scored[k].user_id : k \in 1..Len(runs[r].scored) }
             = { users[u].user_id : u \in { v \in 1..Len(users) :
                   C9_Qualifies(users[v], lastMatched(runs[r]).province) } }
  /\ \A m \in matchesTbl :
        \E t \in tendersTbl : \E u \in 1..Len(users) :
           /\ Some(t.id[1]) = m.tender_id
           /\ users[u].user_id = m.user_id
           /\ C9_Qualifies(users[u], t.province)

\* A record of Madrid has been scored for the two qualifying subscribers of
\* a population that also holds a cancelled one, one that has not finished
\* the onboarding and one of another province.
C9_Witness ==
  \E r \in DOMAIN runs :
     /\ hasMatched(runs[r])
     /\ Len(users) = 5
     /\ Len(runs[r].scored) = 2
     /\ \E m \in matchesTbl : m.user_id = "u2"

C6_ScoreInRange ==
  probe.stage = "scored" => probe.score \in 0..100

\* The four signals at their highest: the score is 100.
C6_Witness ==
  /\ probe.stage = "scored"
  /\ probe.score = 100
  /\ regionSignal(probe.tender, probe.user) = 40
  /\ budgetSignal(probe.tender, probe.user) = 30

\* The tiers of the signals.  A tier is -1 where the comparison does not
\* apply (no budget or no range, no sector, no deadline).
C7_RegionTier(tender, user) ==
  IF /\ IsSome(tender.province)
     /\ \/ user.preferred_province = tender.province
        \/ /\ IsSome(user.locations)
           /\ \E i \in 1..Len(user.locations[1]) : user.locations[1][i] = tender.province[1]
  THEN 1 ELSE 0

C7_BudgetTier(tender, user) ==
  IF IsSome(tender.budget) /\ IsSome(user.budget_min) /\ IsSome(user.budget_max)
  THEN LET b == tender.budget[1]
           lo == user.budget_min[1]
           hi == user.budget_max[1]
       IN  IF lo <= b /\ b <= hi THEN 2
           ELSE IF lo <= 2 * b /\ b <= 2 * hi THEN 1
           ELSE 0
  ELSE -1

C7_SectorTier(tender, user) ==
  IF IsSome(user.sectors) /\ Len(user.sectors[1]) > 0
  THEN IF hasSectorMatch(tender, user) THEN 1 ELSE 0
  ELSE -1

C7_DeadlineTier(tender, now) ==
  IF IsSome(tender.deadline)
  THEN IF tender.deadline[1] - now > 15 * TicksPerDay THEN 1 ELSE 0
  ELSE -1

higherTier(hi, lo) == lo >= 0 /\ hi > lo

\* C7: with the other signals held fixed, a higher tier of one signal never
\* yields a lower score: exact region against none, budget in range against
\* near range against out of range, sector match against no match, a
\* deadline more than 15 days out against a nearer one.
C7_MonotoneInEachSignal ==
  probe.stage = "scored" =>
    LET t == probe.tender
        u == probe.user
        atLeast(t2, u2) == calculateMatchScore(t2, u2, clock) >= probe.score
    IN  /\ \A pr \in ScoreProvinces :
              LET t2 == [t EXCEPT !.province = pr]
              IN  higherTier(C7_RegionTier(t2, u), C7_RegionTier(t, u)) => atLeast(t2, u)
        /\ \A rg \in ScoreRegions :
              LET u2 == [u EXCEPT !.preferred_province = rg[1], !.locations = rg[2]]
              IN  higherTier(C7_RegionTier(t, u2), C7_RegionTier(t, u)) => atLeast(t, u2)
        /\ \A b \in ScoreBudgets :
              LET t2 == [t EXCEPT !.budget = b]
              IN  higherTier(C7_BudgetTier(t2, u), C7_BudgetTier(t, u)) => atLeast(t2, u)
        /\ \A rn \in ScoreRanges :
              LET u2 == [u EXCEPT !.budget_min = rn[1], !.budget_max = rn[2]]
              IN  higherTier(C7_BudgetTier(t, u2), C7_BudgetTier(t, u)) => atLeast(t, u2)
        /\ \A w \in ScoreWorks :
              LET t2 == [t EXCEPT !.title = w[1], !.work_type = w[2]]
              IN  higherTier(C7_SectorTier(t2, u), C7_SectorTier(t, u)) => atLeast(t2, u)
        /\ \A sc \in ScoreSectors :
              LET u2 == [u EXCEPT !.sectors = sc]
              IN  higherTier(C7_SectorTier(t, u2), C7_SectorTier(t, u)) => atLeast(t, u2)
        /\ \A dl \in ScoreDeadlines :
              LET t2 == [t EXCEPT !.deadline = dl]
              IN  higherTier(C7_DeadlineTier(t2, clock), C7_DeadlineTier(t, clock))
                    => atLeast(t2, u)
\* C14: in processTenders a store call that raises for one record does not
\* end the batch.  The failing record adds one entry with its id to the
\* error list and nothing to the new or updated lists or to the store; the
\* loop goes on with the next record, and processTenders returns only
\* when every record has been handled.
C14_FailureStaysInRecord ==
  [][ \A r \in DOMAIN runs :
        /\ (ProcessStep(r) /\ runs'[r].errors # runs[r].errors) =>
             /\ Len(runs'[r].errors) = Len(runs[r].errors) + 1
             /\ SubSeq(runs'[r].errors, 1, Len(runs[r].errors)) = runs[r].errors
             /\ runs'[r].errors[Len(runs'[r].errors)].tender_id
                  = runs[r].tenders[runs[r].i].id
             /\ runs'[r].newTenders = runs[r].newTenders
             /\ runs'[r].updatedTenders = runs[r].updatedTenders
             /\ runs'[r].tenders = runs[r].tenders
             /\ tendersTbl' = tendersTbl
        /\ (r \in DOMAIN runs' /\ runs'[r].log = runs[r].log
              /\ runs[r].pc = "process" /\ runs'[r].pc # "process") =>
             /\ runs[r].i = Len(runs[r].tenders) + 1
             /\ Len(runs[r].newTenders) + Len(runs[r].updatedTenders)
                  + Len(runs[r].errors) <= Len(runs[r].tenders)
        /\ (runs[r].pc = "process") => r \in DOMAIN runs' ]_vars

\* The first record of a batch has failed and the second has been stored.
C14_Witness ==
  \E r \in DOMAIN runs :
     /\ runs[r].pc = "match"
     /\ Len(runs[r].tenders) = 2
     /\ Len(runs[r].errors) = 1
     /\ runs[r].errors[1].tender_id = runs[r].tenders[1].id
     /\ Len(runs[r].newTenders) = 1
     /\ runs[r].newTenders[1].external_id = externalIdOf(runs[r].tenders[2])
     /\ \E t \in tendersTbl : t.external_id = externalIdOf(runs[r].tenders[2])

statusRank(status) ==
  CASE status = "new" -> 0 [] status = "viewed" -> 1 [] status = "notified" -> 2
    [] OTHER -> 3

hasProvinceFolded(profile, province) ==
  /\ IsSome(province)
  /\ \/ /\ IsSome(profile.preferred_province)
        /\ foldedName(profile.preferred_province[1]) = foldedName(province[1])
     \/ /\ IsSome(profile.locations)
        /\ \E k \in 1..Len(profile.locations[1]) :
              foldedName(profile.locations[1][k]) = foldedName(province[1])

\* C19: the matching compares provinces in normalized form: a subscriber
\* (trial or active, onboarded) whose preferred province or one of whose
\* locations is the province of the record up to case and diacritics is
\* evaluated for the record, and gets the 40 points of the province.
C19_CandidatesByFoldedProvince ==
  [][ \A r \in DOMAIN runs :
        MatchStep(r) =>
          LET tender == runs[r].toMatch[runs[r].j]
              profiles == completedProfiles(users)
          IN  \A p \in 1..Len(profiles) :
                 hasProvinceFolded(profiles[p], tender.province) =>
                   /\ \E k \in 1..Len(runs'[r].scored) :
                         runs'[r].scored[k].user_id = profiles[p].user_id
                   /\ regionSignal(tender, profiles[p]) = 40 ]_vars

\* C20: in every execution of matchTendersWithUsers each pair of record
\* and subscriber handed to calculateMatchScore gets 40 points for the
\* province; the 10 points of the other branch are never given to a
\* candidate of getUsersByProvince.
C20_CandidatesGetProvincePoints ==
  [][ \A r \in DOMAIN runs :
        MatchStep(r) =>
          LET tender == runs[r].toMatch[runs[r].j]
          IN  \A k \in 1..Len(runs'[r].scored) :
                 \A u \in 1..Len(users) :
                    users[u].user_id = runs'[r].scored[k].user_id =>
                      /\ regionSignal(tender, users[u]) = 40
                      /\ runs'[r].scored[k].score >= 40 + 5 + 10 ]_vars

\* A subscriber who has the province of the record among the locations,
\* and no preferred province, has been scored.
C20_Witness ==
  \E r \in DOMAIN runs :
     /\ runs[r].pc = "match"
     /\ runs[r].j > 1
     /\ \E k \in 1..Len(runs[r].scored) : \E u \in 1..Len(users) :
           /\ users[u].user_id = runs[r].scored[k].user_id
           /\ ~IsSome(users[u].preferred_province)
           /\ IsSome(users[u].locations)
           /\ Len(users[u].locations[1]) > 1

\* C21 as stated: the matching of a record finishes before the persistence
\* of the next record begins.
C21_MatchedBeforeNextPersisted ==
  [][ \A r \in DOMAIN runs :
        (ProcessStep(r) /\ runs[r].i > 1) =>
          /\ runs[r].j > 1
          /\ Len(runs[r].toMatch) >= runs[r].i - 1 ]_vars

\* C21, as the code runs: the records of a run are persisted one at a
\* time in feed order, all of them before the first is matched; then the
\* records to match are matched one at a time.  No two records are
\* handled in one step and no two runs are in flight.
C21_PersistedAllThenMatched ==
  [][ /\ Len(runs) <= 1
      /\ \A r \in DOMAIN runs :
           /\ (r \in DOMAIN runs' /\ runs'[r].log = runs[r].log) =>
                /\ runs'[r].i \in { runs[r].i, runs[r].i + 1 }
                /\ runs'[r].j \in { runs[r].j, runs[r].j + 1 }
                /\ ~(runs'[r].i # runs[r].i /\ runs'[r].j # runs[r].j)
                /\ runs'[r].tenders # runs[r].tenders => runs[r].pc = "provinces"
           /\ ProcessStep(r) =>
                /\ runs[r].j = 1 /\ runs[r].toMatch = <<>> /\ runs[r].scored = <<>>
                /\ matchesTbl' = matchesTbl
           /\ MatchStep(r) =>
                /\ runs[r].i = Len(runs[r].tenders) + 1
                /\ runs'[r].i = runs[r].i
                /\ tendersTbl' = tendersTbl ]_vars

\* Two records of one run have been persisted and the first of them has
\* been matched.
C21_Witness ==
  \E r \in DOMAIN runs :
     /\ runs[r].pc = "match"
     /\ Len(runs[r].tenders) = 2
     /\ Len(runs[r].newTenders) = 2
     /\ Len(runs[r].toMatch) = 2
     /\ runs[r].j = 2

\* The store call that failed in this step of processTenders, if one did.
faultOfStep(r) ==
  IF Len(runs'[r].faults) > Len(runs[r].faults)
  THEN Some(runs'[r].faults[Len(runs'[r].faults)])
  ELSE None

\* The step adds one entry for the tender at hand to the error list and
\* nothing to the new and updated lists.
recordedAsError(r) ==
  /\ Len(runs'[r].errors) = Len(runs[r].errors) + 1
  /\ runs'[r].errors[Len(runs'[r].errors)].tender_id = runs[r].tenders[runs[r].i].id
  /\ runs'[r].newTenders = runs[r].newTenders
  /\ runs'[r].updatedTenders = runs[r].updatedTenders

\* C22: when the store reports an error for the insert or for the update of
\* a record, the record is added to the error list and not to the new or
\* updated lists.
C22_WriteFailureRecorded ==
  [][ \A r \in DOMAIN runs :
        (ProcessStep(r) /\ IsSome(faultOfStep(r))
           /\ faultOfStep(r)[1].call \in { "insert", "update" })
          => recordedAsError(r) ]_vars

\* The same for the insert alone, and for an update that raises: it holds.
C22_InsertFailureRecorded ==
  [][ \A r \in DOMAIN runs :
        (ProcessStep(r) /\ IsSome(faultOfStep(r))
           /\ \/ faultOfStep(r)[1].call = "insert"
              \/ faultOfStep(r)[1].call = "update" /\ faultOfStep(r)[1].raised)
          => recordedAsError(r) ]_vars

\* C23: a failure of the write of the raw copy adds nothing to the error
\* list, leaves the record in the new or updated list as without the
\* failure, and the loop goes on with the next record.
C23_RawFailureSwallowed ==
  [][ \A r \in DOMAIN runs :
        (ProcessStep(r) /\ IsSome(faultOfStep(r)) /\ faultOfStep(r)[1].call = "raw") =>
          LET tender == runs[r].tenders[runs[r].i]
              found == lookupTender(tendersTbl, externalIdOf(tender))
          IN  /\ runs'[r].errors = runs[r].errors
              /\ runs'[r].tenders = runs[r].tenders
              /\ ~IsSome(found) =>
                   /\ Len(runs'[r].newTenders) = Len(runs[r].newTenders) + 1
                   /\ runs'[r].newTenders[Len(runs'[r].newTenders)].external_id
                        = externalIdOf(tender)
                   /\ runs'[r].updatedTenders = runs[r].updatedTenders
                   /\ \E t \in tendersTbl' : t.external_id = externalIdOf(tender)
              /\ (IsSome(found) /\ shouldUpdate(found[1], clock)) =>
                   /\ runs'[r].updatedTenders
                        = Append(runs[r].updatedTenders, transformTenderData(tender))
                   /\ runs'[r].newTenders = runs[r].newTenders
              /\ (IsSome(found) /\ ~shouldUpdate(found[1], clock)) =>
                   /\ runs'[r].updatedTenders = runs[r].updatedTenders
                   /\ runs'[r].newTenders = runs[r].newTenders
                   /\ tendersTbl' = tendersTbl ]_vars

\* The raw copy of the first record of a batch has failed; both records
\* are in the new list and the error list is empty.
C23_Witness ==
  \E r \in DOMAIN runs :
     /\ runs[r].pc = "match"
     /\ Len(runs[r].tenders) = 2
     /\ runs[r].faults = << [ index |-> 1, call |-> "raw", raised |-> TRUE ] >>
     /\ Len(runs[r].newTenders) = 2
     /\ runs[r].errors = <<>>

\* The ids of the Records in the record store.
storedIds == { t.id : t \in tendersTbl }

\* C27: every Match written by a sync run names the id of a stored Record,
\* and every object handed to matching, for an inserted and for an updated
\* record alike, carries the id of the stored Record it stands for.
C27_HandedTendersIdentifyRecord ==
  /\ \A m \in matchesTbl : m.tender_id \in storedIds
  /\ \A r \in DOMAIN runs :
        runs[r].pc = "match" =>
          \A k \in 1..Len(runs[r].toMatch) :
            /\ IsSome(runs[r].toMatch[k].id)
            /\ runs[r].toMatch[k].id
                 = recordIdOf(tendersTbl, runs[r].toMatch[k].external_id)

\* C27, the part the code keeps: a Match that is in the store names a stored
\* Record, and the objects handed to matching for inserted records and for
\* records read back from the store carry the id of their Record.
C27_MatchesNameStoredRecord ==
  /\ \A m \in matchesTbl : m.tender_id \in storedIds
  /\ \A r \in DOMAIN runs :
        runs[r].pc = "match" =>
          \A k \in 1..Len(runs[r].toMatch) :
            IsSome(runs[r].toMatch[k].id) =>
              runs[r].toMatch[k].id
                = recordIdOf(tendersTbl, runs[r].toMatch[k].external_id)

\* The step ends run r by runSync returning after the matching.
CompletesStep(r) ==
  /\ r \in DOMAIN runs
  /\ runs[r].pc = "match"
  /\ syncLogs[runs[r].log].status = "running"
  /\ syncLogs'[runs[r].log].status = "completed"

\* The stored Records of the tenders a run fetched.
fetchedRecords(run, table) ==
  { t \in table : \E k \in 1..Len(run.tenders) :
                     t.external_id = externalIdOf(run.tenders[k]) }

\* C28: when a sync run completes without store errors, a Match exists for
\* every record fetched in the run (inserted, updated or stored already and
\* left unchanged) and every candidate subscriber whose score for it is 60
\* or more, also in a run where some fetched records are new and others
\* exist already.
C28_FetchedRecordsMatched ==
  [][ \A r \in DOMAIN runs :
        (CompletesStep(r) /\ runs[r].faults = <<>> /\ runs[r].errors = <<>>) =>
          \A t \in fetchedRecords(runs[r], tendersTbl') :
            LET candidates == getUsersByProvince(users, t.province)
            IN  \A k \in 1..Len(candidates) :
                  calculateMatchScore(t, candidates[k], clock) >= MatchThreshold
                    => hasMatchFor(matchesTbl', candidates[k].user_id, t.id) ]_vars

\* C28, the case it names: the same in a run that updated nothing, where
\* some fetched records are new and the others exist already.
C28_MixedRunMatched ==
  [][ \A r \in DOMAIN runs :
        (CompletesStep(r) /\ runs[r].faults = <<>> /\ runs[r].errors = <<>>
           /\ runs[r].updatedTenders = <<>> /\ Len(runs[r].newTenders) > 0
           /\ Len(runs[r].newTenders) < Len(runs[r].tenders)) =>
          \A t \in fetchedRecords(runs[r], tendersTbl') :
            LET candidates == getUsersByProvince(users, t.province)
            IN  \A k \in 1..Len(candidates) :
                  calculateMatchScore(t, candidates[k], clock) >= MatchThreshold
                    => hasMatchFor(matchesTbl', candidates[k].user_id, t.id) ]_vars

\* C28, for the runs the code covers: when every fetched record was handed
\* to matching with the id of its Record, the Matches exist at the end.
C28_HandedRecordsMatched ==
  [][ \A r \in DOMAIN runs :
        (CompletesStep(r) /\ runs[r].faults = <<>> /\ runs[r].errors = <<>>) =>
          \A t \in fetchedRecords(runs[r], tendersTbl') :
            (\E k \in 1..Len(runs[r].toMatch) : runs[r].toMatch[k].id = t.id) =>
              LET candidates == getUsersByProvince(users, t.province)
              IN  \A k \in 1..Len(candidates) :
                    calculateMatchScore(t, candidates[k], clock) >= MatchThreshold
                      => hasMatchFor(matchesTbl', candidates[k].user_id, t.id) ]_vars

\* C29: the running flag is always released: when a run started by execute
\* ends, by runSync returning or raising, isRunning is false again, and a
\* trigger that arrives when no run is in flight starts a run and is not
\* skipped.
C29_FlagReleased ==
  [][ /\ Len(runs') < Len(runs) => ~isRunning'
      /\ (triggers' = triggers + 1 /\ runs = <<>>)
           => (Len(runs') = 1 /\ skipped' = skipped /\ isRunning') ]_vars

\* A run has ended by runSync raising and the next trigger has started the
\* second run.
C29_Witness ==
  /\ triggers = 2
  /\ skipped = 0
  /\ Len(syncLogs) = 2
  /\ syncLogs[1].status = "error"
  /\ Len(runs) = 1
  /\ runs[1].log = 2

\* runSync has returned or raised for the run of log l.
runEnded(l) == \A r \in DOMAIN runs : runs[r].log = l => runs[r].pc = "raised"

\* C30: every sync log leaves the 'running' status when its run ends: once
\* runSync has returned or raised, the log has status 'completed' or
\* 'error', also when no subscriber region is configured and when a store
\* call failed in the run.
C30_LogLeavesRunning ==
  \A l \in DOMAIN syncLogs :
     runEnded(l) => syncLogs[l].status \in { "completed", "error" }

\* The last store call of run r that failed was the update of the log made
\* by the catch of runSync.
catchUpdateFailed(run) ==
  /\ Len(run.faults) > 0
  /\ run.faults[Len(run.faults)].call = "updateSyncLog in catch"

\* C30, as far as the code goes: a run ends with its log 'completed' or
\* 'error' unless the store refused the update made by the catch of runSync.
C30_LogLeavesRunningWhenWritten ==
  [][ \A r \in DOMAIN runs :
        /\ (r \in DOMAIN runs' /\ runs'[r].log = runs[r].log
              /\ runs[r].pc # "raised" /\ runs'[r].pc = "raised")
             => \/ syncLogs'[runs[r].log].status = "error"
                \/ catchUpdateFailed(runs'[r])
        /\ (runs[r].pc # "raised" /\ Len(runs') < Len(runs))
             => syncLogs'[runs[r].log].status = "completed" ]_vars

(***************************************************************************)
(* Properties of the feed filters (SpecFeed).                              *)
(***************************************************************************)
FeedFiltered == probe.stage = "filtered"

\* C11: filterByConstruction keeps an entry exactly when extractCPV gives
\* a code and the string form of the code starts with "45"; an entry
\* whose code is absent or cannot be read is excluded.
C11_KeptIffCodeStartsWith45 ==
  FeedFiltered =>
    LET cpvCode == extractCPV(probe.entry)
        text == jsToString(cpvCode[1])
    IN  /\ (probe.construction = <<probe.entry>>)
             <=> (/\ IsSome(cpvCode)
                  /\ Len(text) >= 2 /\ text[1] = "4" /\ text[2] = "5")
        /\ probe.construction \in { <<>>, <<probe.entry>> }
        /\ ~IsSome(cpvCode) => probe.construction = <<>>

\* An entry whose document lacks the classification has been excluded, and
\* so has an entry whose code is an object without text.
C11_Witness ==
  /\ FeedFiltered
  /\ IsSome(probe.entry.folder)
  /\ IsSome(probe.entry.folder[1].project)
  /\ probe.entry.folder[1].project[1].commodity
       = Some([ isArray |-> FALSE, items |-> << Some(AttrNode(None)) >> ])
  /\ probe.construction = <<>>


\* C12: filterByProvinces keeps an entry exactly when extractProvince gives
\* a province whose folded form is the folded form of one of the provinces
\* of interest; names that differ by accent or case only are equal, and an
\* entry without province is excluded.
C12_KeptIffFoldedProvinceOfInterest ==
  FeedFiltered =>
    LET province == extractProvince(probe.entry)
    IN  /\ (probe.byProvince = <<probe.entry>>)
             <=> (/\ IsSome(province)
                  /\ \E k \in 1..Len(probe.provinces) :
                        foldedName(probe.provinces[k]) = foldedName(province[1]))
        /\ probe.byProvince \in { <<>>, <<probe.entry>> }
        /\ ~IsSome(province) => probe.byProvince = <<>>

\* An entry located in "Málaga" has been kept for the list ["MÁLAGA"].
C12_Witness ==
  /\ FeedFiltered
  /\ extractProvince(probe.entry) = Some(MalagaAccent)
  /\ probe.provinces = << <<"M", "A'", "L", "A", "G", "A">> >>
  /\ probe.byProvince = <<probe.entry>>

\* An entry without any province has been left out.
C12_WitnessNoProvince ==
  /\ FeedFiltered
  /\ ~IsSome(extractProvince(probe.entry))
  /\ Len(probe.provinces) > 0
  /\ probe.byProvince = <<>>

\* The title and summary of an entry, as extractProvince joins them.
entryText(entry) == entry.title \o <<" ">> \o entry.summary

\* Lower case and without diacritics, blanks kept.
foldedText(text) == [i \in 1..Len(text) |-> stripMarks(lowerOf(text[i]))]

\* The names of the list that the text holds, case and diacritics aside.
namesHeld(text) ==
  { k \in 1..Len(provincias) : includes(foldedText(text), foldedName(provincias[k])) }

\* C13: for an entry without structured address whose title and summary
\* hold a name of the list (case and diacritics aside), extractProvince
\* gives a province whose folded form is the folded form of a name held.
C13_NameInTextIsFound ==
  (FeedFiltered /\ ~IsSome(addressProvince(probe.entry))
     /\ namesHeld(entryText(probe.entry)) # {})
    => /\ IsSome(extractProvince(probe.entry))
       /\ \E k \in namesHeld(entryText(probe.entry)) :
             foldedName(extractProvince(probe.entry)[1]) = foldedName(provincias[k])

\* The same for a name written in the text as the list writes it, case
\* aside: it holds.
C13_NameAsListedIsFound ==
  (FeedFiltered /\ ~IsSome(addressProvince(probe.entry))
     /\ \E k \in 1..Len(provincias) :
           includes(toLowerCase(entryText(probe.entry)), provincias[k]))
    => /\ IsSome(extractProvince(probe.entry))
       /\ \E k \in 1..Len(provincias) :
             /\ includes(toLowerCase(entryText(probe.entry)), provincias[k])
             /\ extractProvince(probe.entry) = Some(capitalize(provincias[k]))

(***************************************************************************)
(* Properties of the signals of calculateMatchScore (SpecScore).           *)
(***************************************************************************)
Scored == probe.stage = "scored"

\* The budget signal by the table: 10 without record budget, 15 without
\* declared range, else 30 in [min, max], 20 in [min * 0.5, max * 2], 5
\* otherwise.
budgetByTable(tender, user) ==
  IF ~IsSome(tender.budget) THEN 10
  ELSE IF ~(IsSome(user.budget_min) /\ IsSome(user.budget_max)) THEN 15
  ELSE IF user.budget_min[1] <= tender.budget[1]
          /\ tender.budget[1] <= user.budget_max[1] THEN 30
  ELSE IF user.budget_min[1] <= 2 * tender.budget[1]
          /\ tender.budget[1] <= 2 * user.budget_max[1] THEN 20
  ELSE 5

\* The score with the budget signal taken from the table.
scoreWithBudgetByTable(tender, user, now) ==
  Min(regionSignal(tender, user) + budgetByTable(tender, user)
        + sectorSignal(tender, user) + recencySignal(tender, now), 100)

\* C17: the budget signal follows the table for every record budget and
\* every subscriber range, a range with minimum 0 included.
C17_BudgetFollowsTable ==
  Scored =>
    /\ budgetSignal(probe.tender, probe.user) = budgetByTable(probe.tender, probe.user)
    /\ probe.score = scoreWithBudgetByTable(probe.tender, probe.user, clock)

\* The same for the ranges whose minimum is not 0: it holds.
C17_BudgetFollowsTablePositiveMin ==
  (Scored /\ probe.user.budget_min # Some(0)) =>
    /\ budgetSignal(probe.tender, probe.user) = budgetByTable(probe.tender, probe.user)
    /\ probe.score = scoreWithBudgetByTable(probe.tender, probe.user, clock)

\* The time left until the deadline, in ticks.
timeLeft(tender, now) == tender.deadline[1] - now

\* The score with the recency signal replaced by the given one.
scoreWithRecency(tender, user, recency) ==
  Min(regionSignal(tender, user) + budgetSignal(tender, user)
        + sectorSignal(tender, user) + recency, 100)

\* C18 as stated: the recency signal is 5 for an active record, plus 5 for
\* a deadline more than 15 days out, plus 3 for a deadline 7 to 15 days out
\* (both ends included), plus 0 for a deadline nearer than 7 days, past or
\* absent.
C18_RecencySevenIncluded ==
  Scored =>
    LET tender == probe.tender
        recency ==
          (IF tender.status = "active" THEN 5 ELSE 0)
          + (IF ~IsSome(tender.deadline) THEN 0
             ELSE IF timeLeft(tender, clock) > 15 * TicksPerDay THEN 5
             ELSE IF timeLeft(tender, clock) >= 7 * TicksPerDay THEN 3
             ELSE 0)
    IN  /\ recencySignal(tender, clock) = recency
        /\ probe.score = scoreWithRecency(tender, probe.user, recency)

\* C18, as the code computes it: the 3 points are given for a deadline
\* more than 7 days and at most 15 days out; a deadline exactly 7 days
\* out gets none.
C18_RecencyAfterSeven ==
  Scored =>
    LET tender == probe.tender
        recency ==
          (IF tender.status = "active" THEN 5 ELSE 0)
          + (IF ~IsSome(tender.deadline) THEN 0
             ELSE IF timeLeft(tender, clock) > 15 * TicksPerDay THEN 5
             ELSE IF timeLeft(tender, clock) > 7 * TicksPerDay THEN 3
             ELSE 0)
    IN  /\ recencySignal(tender, clock) = recency
        /\ probe.score = scoreWithRecency(tender, probe.user, recency)

\* An active record whose deadline is exactly 7 days out has been scored.
C18_Witness ==
  /\ Scored
  /\ probe.tender.status = "active"
  /\ probe.tender.deadline = Some(clock + 7 * TicksPerDay)
  /\ recencySignal(probe.tender, clock) = 5

\* The budget amount of the entry, if its document has one.
budgetNode(entry) ==
  IF IsSome(entry.folder) /\ IsSome(entry.folder[1].project)
  THEN entry.folder[1].project[1].budget
  ELSE None

\* The text of the amount is a number: digits, after blanks if any.
writesNumber(node) ==
  /\ IsSome(textOrNode(node))
  /\ Len(trimLeft(jsToString(textOrNode(node)[1]))) > 0
  /\ isDigit(Head(trimLeft(jsToString(textOrNode(node)[1]))))

\* C24: extractBudget gives a number or null: null when the amount is
\* absent and when it is present but is not a number; never NaN.
C24_BudgetNumberOrNull ==
  FeedFiltered =>
    LET budget == probe.transformed[1].budget
    IN  /\ budget # NaN
        /\ \/ budget = None
           \/ /\ Len(budget) = 1 /\ budget[1] \in Nat
        /\ ~writesNumber(budgetNode(probe.entry)) => budget = None

\* What holds instead: a number when the amount writes one, null when the
\* amount is absent or empty, NaN for every other amount.
C24_BudgetNumberNullOrNaN ==
  FeedFiltered =>
    LET budget == probe.transformed[1].budget
        node == budgetNode(probe.entry)
    IN  /\ writesNumber(node) => (budget # NaN /\ Len(budget) = 1 /\ budget[1] \in Nat)
        /\ ~IsSome(textOrNode(node)) => budget = None
        /\ (IsSome(textOrNode(node)) /\ ~writesNumber(node)) => budget = NaN

\* The text of a node that holds one.
textOf(node) ==
  IF IsSome(node) /\ IsSome(node[1].text) /\ Len(node[1].text[1]) > 0
  THEN node[1].text
  ELSE None

\* The value of the structured address: the code, else the name.
structuredProvince(entry) ==
  IF IsSome(entry.folder) /\ IsSome(entry.folder[1].project)
     /\ IsSome(entry.folder[1].project[1].location)
  THEN LET address == entry.folder[1].project[1].location[1]
       IN  IF IsSome(textOf(address.code)) THEN textOf(address.code)
           ELSE textOf(address.name)
  ELSE None

\* The first name of the list, in the order of the list, that the text
\* holds in lower case, capitalized.
firstNameHeld(text) ==
  LET hits == { k \in 1..Len(provincias) : includes(toLowerCase(text), provincias[k]) }
  IN  IF hits = {} THEN None
      ELSE Some(capitalize(provincias[CHOOSE k \in hits : \A h \in hits : k <= h]))

\* The name of the issuing body, if the entry has one.
bodyName(entry) ==
  IF IsSome(entry.folder) /\ IsSome(textOf(entry.folder[1].body))
  THEN textOf(entry.folder[1].body)[1]
  ELSE <<>>

\* C25: extractProvince gives the value of the structured address (the
\* code, else the name) whenever there is one, whatever the texts say;
\* otherwise the first name of the list found in title and summary;
\* otherwise the first found in the name of the issuing body; otherwise
\* null.
C25_TiersInOrder ==
  FeedFiltered =>
    LET entry == probe.entry
        province == probe.transformed[1].province
    IN  /\ province = extractProvince(entry)
        /\ province =
             IF IsSome(structuredProvince(entry)) THEN structuredProvince(entry)
             ELSE IF IsSome(firstNameHeld(entryText(entry)))
                  THEN firstNameHeld(entryText(entry))
                  ELSE firstNameHeld(bodyName(entry))

\* An entry located in Sevilla by the code of its address, in Madrid by
\* the name, and whose title names Madrid, has been read as Sevilla.
C25_Witness ==
  /\ FeedFiltered
  /\ structuredProvince(probe.entry) = Some(Sevilla)
  /\ firstNameHeld(entryText(probe.entry)) = Some(Madrid)
  /\ IsSome(probe.entry.folder[1].body)
  /\ probe.transformed[1].province = Some(Sevilla)

\* An entry without address and without name in its texts has been read
\* by the name of its issuing body; one without any of them as null.
C25_WitnessLowerTiers ==
  /\ FeedFiltered
  /\ ~IsSome(structuredProvince(probe.entry))
  /\ ~IsSome(firstNameHeld(entryText(probe.entry)))
  /\ probe.transformed[1].province = None

(***************************************************************************)
(* Properties of the cap on the feed (SpecCap).                            *)
(***************************************************************************)
Capped == probe.stage = "capped"

\* The positions of the feed that are within the cap and pass both filters.
consideredKept ==
  { k \in 1..Len(probe.feed) :
      /\ k <= probe.maxEntries
      /\ keepsConstruction(probe.feed[k])
      /\ keepsProvince(probe.feed[k], probe.provinces) }

\* C26: the tenders of a run are those of the first maxEntriesToProcess
\* entries of the feed that pass the sector and the region filter, in feed
\* order: an entry beyond the cap yields nothing, also when fewer entries
\* than the cap pass the filters.
C26_CapBeforeFilters ==
  Capped =>
    /\ Len(probe.tenders) = Cardinality(consideredKept)
    /\ Len(probe.tenders) <= probe.maxEntries
    /\ \A k \in consideredKept :
          probe.tenders[Cardinality({ j \in consideredKept : j <= k })]
            = transformEntry(probe.feed[k])

\* A feed longer than the cap whose entry just beyond the cap passes both
\* filters while fewer entries than the cap were kept.
C26_Witness ==
  /\ Capped
  /\ Len(probe.feed) > probe.maxEntries
  /\ keepsConstruction(probe.feed[probe.maxEntries + 1])
  /\ keepsProvince(probe.feed[probe.maxEntries + 1], probe.provinces)
  /\ Len(probe.tenders) < probe.maxEntries

====
